---- MODULE Spec2Model ----
(***************************************************************************)
(* tack 0.6.0 (src/src/tack.c, lines 1721-4247): the dependency tracker    *)
(* (obj_needs_rebuild / depfile_needs_rebuild), the job scheduler          *)
(* (compile_sources) and the build orchestrator (build_core,               *)
(* build_one_target), together with the part of the environment they act   *)
(* on: a file system with whole-second modification times, a clock, and    *)
(* the compiler and linker processes.                                      *)
(*                                                                         *)
(* A path is a sequence of one-character strings, so that the depfile      *)
(* parser can be modelled character by character.                          *)
(***************************************************************************)
EXTENDS Integers, Sequences, FiniteSets, TLC

VARIABLES
  fs,          \* file system: path -> mtime in seconds, -1 = no such file
  depText,     \* content of each depfile (meaningful while the file exists)
  now,         \* wall clock, seconds
  pc,          \* position of the driver
  force,       \* --rebuild
  jobs,        \* -j N as handed to compile_sources
  use_core,    \* build_one_target: use_core
  srcs,        \* build_one_target: srcs (scan of the target's directory)
  objs,        \* build_one_target: objs
  core_objs,   \* build_one_target: core_objs
  build_rc,    \* result of the last build_one_target, -1 = none yet
  cs_srcs,     \* compile_sources: srcs
  cs_objd,     \* compile_sources: objd
  cs_depd,     \* compile_sources: depd
  cs_jobs,     \* compile_sources: jobs after "if (jobs < 1) jobs = 1"
  cs_i,        \* compile_sources: i
  cs_k,        \* compile_sources: k of the final drain
  running,     \* compile_sources: running[0..running_n-1]
  out_objs,    \* compile_sources: out_objs
  cs_ret,      \* who called compile_sources: "core", "target" or "sched"
  cs_rc,       \* result of the last compile_sources, -1 = none yet
  proc,        \* compiler processes, one per source: state and exit code
  link_proc,   \* the linker process
  spawnOrder,  \* history: sources in the order their process was spawned
  waitOrder,   \* history: sources in the order their process was waited
  cs_failed,   \* history: a wait returned non-zero or a spawn failed
  compSpawned, \* history: sources compiled in this build_one_target
  linkSpawned, \* history: linker processes spawned in this build_one_target
  wroteAll,    \* history: every exit-0 process of this build wrote its output
  since,       \* history: file-system change since the last complete build
  scen,        \* history: value of since when the current build started
  lastCore,    \* history: use_core of the last complete build
  exe0,        \* history: mtime of the binary when the current build started
  onr_ret,     \* result of the last direct obj_needs_rebuild call, -1 = none
  builds,      \* number of driver runs so far
  edits        \* number of files the user has saved or deleted so far

VARIABLES
  cpc,                 \* position of main in its configuration phase
  g_no_config,         \* --no-config
  g_config_path_cli,   \* --config PATH was given
  g_no_auto_tools_cli, \* --no-auto-tools
  tackfile,            \* tackfile.c: its macros, or NoFile
  tack_ini,            \* tack.ini: its lines, or NoFile
  cli_ini,             \* the file named by --config: its lines, or NoFile
  gen_ini,             \* build/_tackfile/tackfile.generated.ini, or NoFile
  gen_fresh,           \* mtime(generated ini) >= mtime(tackfile.c)
  tools,               \* directories under tools/, in readdir order
  app_dir,             \* src/app exists and is a directory
  g_ini_targets,       \* g_ini_targets
  g_ini_overrides,     \* g_ini_overrides
  g_config_loaded,     \* g_config_loaded
  g_config_default_target,     \* g_config_default_target, Null = 0
  g_config_disable_auto_tools, \* g_config_disable_auto_tools
  tv,                  \* main: tv, the target graph
  exit_rc,             \* exit status of main, -1 = still running
  sel,                 \* the selector handed to find_target
  built,               \* targets handed to build_one_target
  gen_steps,           \* history: generator steps taken, failures, discovery
  parsed,              \* history: documents read by ini_load_file, in order
  tv_prev,             \* history: the graph before the last TargetDef applied
  tv_def,              \* history: the last TargetDef applied on its own
  tv_n                 \* history: number of TargetDefs applied on their own

VARIABLES
  tgt,         \* build_one_target: t, the target being built
  ov_use_core, \* build_one_target: ov ? ov->use_core : 0
  no_core,     \* build_one_target: no_core (--no-core)
  link_all,    \* build_one_target: all, the objects handed to link_executable
  phases,      \* history: the phases of this build_one_target, in order
  prevBuild,   \* history: the build before this one, if it was complete
  lateWrites,  \* history: objects written after the batch had returned failure
  discovered,  \* history: the graph as discover_targets left it
  gen_newer,   \* mtime(generated ini) > mtime(tackfile.c)
  scan_pc,     \* position of the source scan made on its own
  scan_in,     \* the target and the tree of the source scan
  scan_out,    \* the sources the scan returned
  exec_pc,     \* position of a run of the process executor on its own
  exec_in,     \* the platform, the caller and what the program does
  exec_out,    \* what proc_spawn_nowait, proc_wait and run_argv_wait returned
  ini_pc,      \* position of ini_load_file run on a file of its own
  ini_file,    \* the lines of that file as fgets returns them
  ini_n,       \* lineno: the lines read so far
  ini_st,      \* sec, cur_t and the globals ini_load_file writes
  lateSpawns   \* history: jobs of this batch spawned after one of its jobs failed

cfgVars == <<cpc, g_no_config, g_config_path_cli, g_no_auto_tools_cli,
             tackfile, tack_ini, cli_ini, gen_ini, gen_fresh, tools, app_dir,
             g_ini_targets, g_ini_overrides, g_config_loaded,
             g_config_default_target, g_config_disable_auto_tools, tv,
             exit_rc, sel, built, gen_steps, parsed, tv_prev, tv_def, tv_n,
             discovered, gen_newer>>

buildVars == <<tgt, ov_use_core, no_core, link_all, phases, prevBuild,
               lateWrites>>

scanVars == <<scan_pc, scan_in, scan_out>>

execVars == <<exec_pc, exec_in, exec_out>>

iniVars == <<ini_pc, ini_file, ini_n, ini_st>>

histVars == <<lateSpawns>>

driverVars == <<fs, depText, now, pc, force, jobs, use_core, srcs, objs,
                core_objs, build_rc, cs_srcs, cs_objd, cs_depd, cs_jobs, cs_i,
                cs_k, running, out_objs, cs_ret, cs_rc, proc, link_proc,
                spawnOrder, waitOrder, cs_failed, compSpawned, linkSpawned,
                wroteAll, since, scen, lastCore, exe0, onr_ret, builds, edits>>

vars == <<driverVars, buildVars, cfgVars, scanVars, execVars, iniVars, histVars>>

\* a null pointer where the code has a string
Null == <<"NULL">>
\* a document that does not exist: fopen fails
NoFile == <<[t |-> "ENOENT", name |-> <<>>, key |-> "", val |-> <<>>]>>
\* no tackfile.c in the project root
NoTackfile ==
  [default_target |-> <<"ENOENT">>, disable_auto_tools |-> FALSE,
   targets |-> <<>>, overrides |-> <<>>]
\* no TargetDef: the terminating entry of a TargetDef array
NoDef ==
  [name |-> Null, src_dir |-> Null, bin_base |-> Null, id |-> Null,
   enabled |-> FALSE, remove |-> FALSE]

\* the configuration phase has not run: every global as main finds it
CfgIdle ==
  /\ cpc = "off"
  /\ g_no_config = FALSE
  /\ g_config_path_cli = FALSE
  /\ g_no_auto_tools_cli = FALSE
  /\ tackfile = NoTackfile
  /\ tack_ini = NoFile
  /\ cli_ini = NoFile
  /\ gen_ini = NoFile
  /\ gen_fresh = FALSE
  /\ tools = <<>>
  /\ app_dir = FALSE
  /\ g_ini_targets = <<>>
  /\ g_ini_overrides = <<>>
  /\ g_config_loaded = FALSE
  /\ g_config_default_target = Null
  /\ g_config_disable_auto_tools = FALSE
  /\ tv = <<>>
  /\ exit_rc = -1
  /\ sel = Null
  /\ built = <<>>
  /\ gen_steps = {}
  /\ parsed = <<>>
  /\ tv_prev = <<>>
  /\ tv_def = NoDef
  /\ tv_n = 0
  /\ discovered = <<>>
  /\ gen_newer = FALSE

\* the two targets of the model: the primary target and one tool
MainTarget == "app"
OtherTarget == "tool"

\* no build before this one
NoBuild ==
  [tgt |-> MainTarget, ok |-> FALSE, use_core |-> FALSE, core_objs |-> <<>>,
   link_all |-> <<>>]

\* build_one_target has not been entered
BuildIdle ==
  /\ tgt = MainTarget
  /\ ov_use_core = FALSE
  /\ no_core = FALSE
  /\ link_all = <<>>
  /\ phases = <<>>
  /\ prevBuild = NoBuild
  /\ lateWrites = {}

\* no scan asked for
NoScan ==
  [name |-> <<>>, src_dir |-> <<>>, files |-> {}, win32 |-> FALSE,
   use_core |-> FALSE]

\* nothing scanned: srcs and core_srcs of build_one_target and build_core,
\* and the directory entries readdir has still to give
NoScanOut == [srcs |-> <<>>, core_srcs |-> <<>>, todo |-> <<>>]

ScanIdle ==
  /\ scan_pc = "off"
  /\ scan_in = NoScan
  /\ scan_out = NoScanOut

\* no program asked for
NoExec ==
  [win32 |-> FALSE, caller |-> "", fork_ok |-> FALSE, found |-> FALSE,
   ends |-> 0]

\* nothing returned yet; -1 stands for a result that was not produced
NoExecOut ==
  [spawn_rc |-> -1, child |-> [st |-> "none", code |-> 0], wait_rc |-> -1,
   ret |-> -1]

ExecIdle ==
  /\ exec_pc = "off"
  /\ exec_in = NoExec
  /\ exec_out = NoExecOut

\* ini_load_file before its first line: sec = SEC_NONE, cur_t = 0
NoIniState ==
  [sec |-> "none", cur |-> 0, targets |-> <<>>, default_target |-> Null,
   disable_auto_tools |-> FALSE]

HistIdle == lateSpawns = 0

IniIdle ==
  /\ ini_pc = "off"
  /\ ini_file = <<>>
  /\ ini_n = 0
  /\ ini_st = NoIniState

----------------------------------------------------------------------------
(* Bounds *)

\* last second of the clock
MaxTime == 1
\* number of driver runs
MaxBuilds == 2
\* number of files the user saves or deletes
MaxEdits == 1
\* largest -j value tried
MaxJobs == 3
\* longest source list handed to compile_sources on its own
MaxSrcs == 4
\* largest -j value given to a build of the target
MaxBuildJobs == 2

(* Program constants *)

\* char tok[2048] in depfile_needs_rebuild
TokCap == 2048

----------------------------------------------------------------------------
(* The project tree of the model *)

\* sources found under the target's source directory
TargetSrcs == << <<"a">>, <<"b">>, <<"d">> >>
\* sources found under src/core
CoreSrcs == << <<"c">> >>
\* the one header of the project
Hdr == <<"h">>
\* sources used when compile_sources is driven on its own
PoolSrcs == << <<"a">>, <<"b">>, <<"c">>, <<"d">>, <<"e">> >>
\* a batch with a source in a subdirectory and a source whose name has an
\* underscore where the path of the other has the separator
ClashSrcs == << <<"p", "/", "q">>, <<"p", "_", "q">>, <<"b">>, <<"d">>, <<"e">> >>

Range(s) == {s[i] : i \in 1..Len(s)}

\* headers each source includes (what the compiler reads and lists with -MD)
Includes(src) == IF src \in {<<"a">>, <<"c">>} THEN <<Hdr>> ELSE <<>>

\* object and depfile directories of the target and of _core, and the binary
TargetObjd == <<"O">>
TargetDepd == <<"D">>
CoreObjd == <<"K">>
CoreDepd == <<"E">>
ExePath == <<"X">>

\* the second target: its sources, its directories and its binary
OtherSrcs == << <<"e">> >>
OtherObjd == <<"P">>
OtherDepd == <<"Q">>
OtherExe == <<"Y">>

\* what the scan of t->src_dir can find, build_paths(.., t->id, p) and
\* exe_path(.., t->id, p, t->bin_base) for target t
SrcsOf(t) == IF t = OtherTarget THEN OtherSrcs ELSE TargetSrcs
ObjdOfTarget(t) == IF t = OtherTarget THEN OtherObjd ELSE TargetObjd
DepdOfTarget(t) == IF t = OtherTarget THEN OtherDepd ELSE TargetDepd
ExePathOf(t) == IF t = OtherTarget THEN OtherExe ELSE ExePath

----------------------------------------------------------------------------
(* File system primitives *)

file_mtime(path) == IF path \in DOMAIN fs THEN fs[path] ELSE -1

file_exists(path) == file_mtime(path) >= 0

sanitize_char(c) == IF c \in {"/", "\\", ".", ":"} THEN "_" ELSE c

sanitize_path_to_id(path) == [i \in 1..Len(path) |-> sanitize_char(path[i])]

\* path_join(obj_path, objd, sid ".o")
ObjPathOf(objd, src) == objd \o sanitize_path_to_id(src)

\* path_join(dep_path, depd, sid ".d")
DepPathOf(depd, src) == depd \o sanitize_path_to_id(src)

AllSrcs == Range(PoolSrcs) \cup Range(TargetSrcs) \cup Range(CoreSrcs)
           \cup Range(ClashSrcs)

Paths == AllSrcs \cup {Hdr, ExePath, OtherExe}
         \cup {ObjPathOf(d, s) : d \in {TargetObjd, CoreObjd, OtherObjd}, s \in AllSrcs}
         \cup {DepPathOf(d, s) : d \in {TargetDepd, CoreDepd, OtherDepd}, s \in AllSrcs}

DepPaths == {DepPathOf(d, s) : d \in {TargetDepd, CoreDepd, OtherDepd}, s \in AllSrcs}

----------------------------------------------------------------------------
(* Dependency tracker *)

isspace(c) == c \in {" ", "\t", "\n", "\r"}

\* mutant of PushTok: a colon is never a character of a token
PushTokSkipColon(tok, c) ==
  IF c = ":" \/ Len(tok) >= TokCap - 1 THEN tok ELSE Append(tok, c)

\* "if (ti < (int)sizeof(tok) - 1) tok[ti++] = (char)c;"
PushTok(tok, c) == IF Len(tok) < TokCap - 1 THEN Append(tok, c) ELSE tok

\* mutant of DepStale: a dependency as old as the object makes it stale too
DepStaleEqual(tok, obj_t) == file_mtime(tok) < 0 \/ file_mtime(tok) >= obj_t

\* a finished dependency token makes the object stale:
\* "if (dt < 0 || dt > obj_t)"
DepStale(tok, obj_t) == file_mtime(tok) < 0 \/ file_mtime(tok) > obj_t

RECURSIVE DepScan(_, _, _, _, _)
\* the fgetc loop of depfile_needs_rebuild from position pos on
DepScan(text, pos, tok, seen_colon, obj_t) ==
  IF pos > Len(text)
  THEN Len(tok) > 0 /\ seen_colon /\ DepStale(tok, obj_t)
  ELSE LET c == text[pos] IN
    IF c = "\\" THEN
      IF pos + 1 > Len(text)
      THEN Len(tok) > 0 /\ seen_colon /\ DepStale(tok, obj_t)
      ELSE IF text[pos + 1] \in {"\n", "\r"}
           THEN DepScan(text, pos + 2, tok, seen_colon, obj_t)
           ELSE DepScan(text, pos + 2, PushTok(tok, text[pos + 1]), seen_colon, obj_t)
    ELSE IF c = ":" /\ ~seen_colon THEN DepScan(text, pos + 1, <<>>, TRUE, obj_t)
    ELSE IF isspace(c) THEN
      IF Len(tok) > 0
      THEN IF seen_colon /\ DepStale(tok, obj_t)
           THEN TRUE
           ELSE DepScan(text, pos + 1, <<>>, seen_colon, obj_t)
      ELSE DepScan(text, pos + 1, tok, seen_colon, obj_t)
    ELSE DepScan(text, pos + 1, PushTok(tok, c), seen_colon, obj_t)

RECURSIVE DepChecked(_, _, _, _)
\* the tokens the fgetc loop of depfile_needs_rebuild hands to file_mtime
\* from position pos on, in order, when none of them makes it return early
DepChecked(text, pos, tok, seen_colon) ==
  IF pos > Len(text)
  THEN IF Len(tok) > 0 /\ seen_colon THEN <<tok>> ELSE <<>>
  ELSE LET c == text[pos] IN
    IF c = "\\" THEN
      IF pos + 1 > Len(text)
      THEN IF Len(tok) > 0 /\ seen_colon THEN <<tok>> ELSE <<>>
      ELSE IF text[pos + 1] \in {"\n", "\r"}
           THEN DepChecked(text, pos + 2, tok, seen_colon)
           ELSE DepChecked(text, pos + 2, PushTok(tok, text[pos + 1]), seen_colon)
    ELSE IF c = ":" /\ ~seen_colon THEN DepChecked(text, pos + 1, <<>>, TRUE)
    ELSE IF isspace(c) THEN
      IF Len(tok) > 0
      THEN (IF seen_colon THEN <<tok>> ELSE <<>>)
           \o DepChecked(text, pos + 1, <<>>, seen_colon)
      ELSE DepChecked(text, pos + 1, tok, seen_colon)
    ELSE DepChecked(text, pos + 1, PushTok(tok, c), seen_colon)

depfile_needs_rebuild(obj_path, dep_path) ==
  IF file_mtime(obj_path) < 0 THEN TRUE
  ELSE IF ~file_exists(dep_path) THEN TRUE
  ELSE DepScan(depText[dep_path], 1, <<>>, FALSE, file_mtime(obj_path))

obj_needs_rebuild(obj_path, src_path, dep_path, frc) ==
  IF frc THEN TRUE
  ELSE IF file_mtime(obj_path) < 0 THEN TRUE
  ELSE IF file_mtime(src_path) < 0 THEN TRUE
  ELSE IF file_mtime(src_path) > file_mtime(obj_path) THEN TRUE
  ELSE depfile_needs_rebuild(obj_path, dep_path)

----------------------------------------------------------------------------
(* Processes: the compiler and the linker *)

NoProc == [st |-> "none", code |-> 0]

\* processes that were spawned and have not been waited
Unwaited == {s \in AllSrcs : proc[s].st \in {"run", "exited"}}

\* what "cc -MD -MF dep -o obj src" writes into the depfile
DepTextOf(obj_path, src) ==
  obj_path \o <<":", " ">> \o src
    \o (IF Len(Includes(src)) = 0 THEN <<>>
        ELSE <<" ", "\\", "\n", " ">> \o Includes(src)[1])
    \o <<"\n">>

\* the compiler can read the source and every header it includes
CanCompile(src) ==
  file_exists(src) /\ \A i \in 1..Len(Includes(src)) : file_exists(Includes(src)[i])

\* a running compiler process ends: exit 0 with object and depfile written,
\* exit 0 with nothing written (a preprocess-only or syntax-only flag), or
\* a non-zero exit
CompilerExit(s) ==
  /\ proc[s].st = "run"
  /\ \/ /\ CanCompile(s)
        /\ proc' = [proc EXCEPT ![s] = [st |-> "exited", code |-> 0]]
        /\ fs' = [fs EXCEPT ![ObjPathOf(cs_objd, s)] = now,
                            ![DepPathOf(cs_depd, s)] = now]
        /\ depText' = [depText EXCEPT ![DepPathOf(cs_depd, s)] =
                                          DepTextOf(ObjPathOf(cs_objd, s), s)]
        /\ lateWrites' = IF pc \in {"done", "returned", "idle"}
                         THEN lateWrites \cup {s} ELSE lateWrites
        /\ UNCHANGED wroteAll
     \/ /\ proc' = [proc EXCEPT ![s] = [st |-> "exited", code |-> 0]]
        /\ wroteAll' = FALSE
        /\ UNCHANGED <<fs, depText, lateWrites>>
     \/ /\ proc' = [proc EXCEPT ![s] = [st |-> "exited", code |-> 1]]
        /\ UNCHANGED <<fs, depText, wroteAll, lateWrites>>
  /\ UNCHANGED <<tgt, ov_use_core, no_core, link_all, phases, prevBuild>>
  /\ UNCHANGED <<now, pc, force, jobs, use_core, srcs, objs, core_objs,
                 build_rc, cs_srcs, cs_objd, cs_depd, cs_jobs, cs_i, cs_k,
                 running, out_objs, cs_ret, cs_rc, link_proc, spawnOrder,
                 waitOrder, cs_failed, compSpawned, linkSpawned, since, scen,
                 lastCore, exe0, onr_ret, builds,
                 edits>>
  /\ UNCHANGED <<cfgVars, scanVars, execVars, iniVars, histVars>>

\* proc_wait: the exit status of an exited process
proc_wait(p) == p.code

----------------------------------------------------------------------------
(* build_one_target returns r *)

NoChange == [kind |-> "none", file |-> <<>>, affected |-> {}]

\* build_one_target returns r; the tree is in step with the binary when the
\* build succeeded and every process wrote what it was asked to write
BuildReturn(r) ==
  /\ pc' = "returned"
  /\ build_rc' = r
  /\ since' = IF r = 0 /\ wroteAll
              THEN [kind |-> "same", file |-> <<>>, affected |-> {}]
              ELSE NoChange
  /\ lastCore' = use_core

----------------------------------------------------------------------------
(* Job scheduler: compile_sources *)

\* entry of compile_sources, up to the head of the for loop
CsBegin(list, objd, depd, jbs, ret) ==
  /\ cs_srcs' = list
  /\ cs_objd' = objd
  /\ cs_depd' = depd
  /\ cs_jobs' = IF jbs < 1 THEN 1 ELSE jbs
  /\ cs_i' = 1
  /\ cs_k' = 1
  /\ running' = <<>>
  /\ out_objs' = <<>>
  /\ cs_ret' = ret
  /\ cs_rc' = -1
  /\ spawnOrder' = <<>>
  /\ waitOrder' = <<>>
  /\ cs_failed' = FALSE
  /\ lateSpawns' = 0
  /\ pc' = "cs_loop"

\* mutant of CsReturn: build_one_target ignores the result of build_core
CsReturnCoreIgnored(r) ==
  /\ cs_rc' = r
  /\ IF cs_ret = "sched"
     THEN pc' = "done" /\ UNCHANGED <<build_rc, since, lastCore, objs, core_objs>>
     ELSE IF cs_ret = "core"
     THEN /\ pc' = "compile_target"
          /\ core_objs' = out_objs
          /\ UNCHANGED <<build_rc, since, lastCore, objs>>
     ELSE IF r # 0
     THEN BuildReturn(1) /\ UNCHANGED <<objs, core_objs>>
     ELSE /\ pc' = "link_decide"
          /\ objs' = out_objs
          /\ UNCHANGED <<build_rc, since, lastCore, core_objs>>

\* compile_sources returns r to build_core, to build_one_target or to a
\* direct caller
CsReturn(r) ==
  /\ cs_rc' = r
  /\ IF cs_ret = "sched"
     THEN pc' = "done" /\ UNCHANGED <<build_rc, since, lastCore, objs, core_objs>>
     ELSE IF r # 0
     THEN BuildReturn(1) /\ UNCHANGED <<objs, core_objs>>
     ELSE IF cs_ret = "core"
     THEN /\ pc' = "compile_target"
          /\ core_objs' = out_objs
          /\ UNCHANGED <<build_rc, since, lastCore, objs>>
     ELSE /\ pc' = "link_decide"
          /\ objs' = out_objs
          /\ UNCHANGED <<build_rc, since, lastCore, core_objs>>

\* mutant of WindowFull: admits one process too many
WindowFullLate == Len(running) > cs_jobs

\* the window holds as many processes as -j allows: "running_n >= jobs"
WindowFull == Len(running) >= cs_jobs

\* mutant of WaitSlot: waits on the process spawned last
WaitSlotNewest(run) == Len(run)

\* the slot of running[] that is waited when the window is full: running[0]
WaitSlot(run) == 1

\* mutant of DrainDone: the final loop stops one process early
DrainDoneEarly == cs_k >= Len(running)

\* the final loop has waited every tracked process: "k < running_n" is false
DrainDone == cs_k > Len(running)

\* mutant of ExitFailed: only a negative status counts as a failure
ExitFailedNegative(rc) == rc < 0

\* "if (rc != 0)" after a wait
ExitFailed(rc) == rc # 0

\* head and first half of one iteration of the for loop: push the object
\* path, skip an up-to-date object, otherwise go on to spawn
CsLoop ==
  /\ pc = "cs_loop"
  /\ IF cs_i > Len(cs_srcs)
     THEN /\ IF cs_jobs > 1
             THEN /\ pc' = "cs_drain"
                  /\ UNCHANGED <<cs_rc, build_rc, since, lastCore, objs, core_objs>>
             ELSE CsReturn(0)
          /\ UNCHANGED <<cs_i, out_objs>>
     ELSE LET src == cs_srcs[cs_i]
              obj_path == ObjPathOf(cs_objd, src)
              dep_path == DepPathOf(cs_depd, src)
          IN /\ out_objs' = Append(out_objs, obj_path)
             /\ IF ~obj_needs_rebuild(obj_path, src, dep_path, force)
                THEN cs_i' = cs_i + 1 /\ pc' = "cs_loop"
                ELSE /\ cs_i' = cs_i
                     /\ pc' = IF cs_jobs = 1 THEN "cs_spawn1"
                              ELSE IF WindowFull THEN "cs_full"
                              ELSE "cs_spawn"
             /\ UNCHANGED <<cs_rc, build_rc, since, lastCore, objs, core_objs>>
  /\ UNCHANGED <<fs, depText, now, force, jobs, use_core, srcs, cs_srcs,
                 cs_objd, cs_depd, cs_jobs, cs_k, running, cs_ret, proc,
                 link_proc, spawnOrder, waitOrder, cs_failed, compSpawned,
                 linkSpawned, wroteAll, scen, exe0, onr_ret, builds,
                 edits>>
  /\ UNCHANGED <<cfgVars, scanVars, execVars, iniVars, histVars, buildVars>>

\* a job of this batch has ended with a non-zero status, waited or not
JobFailed ==
  \E i \in 1..Len(spawnOrder) :
    /\ proc[spawnOrder[i]].st \in {"exited", "waited"}
    /\ proc[spawnOrder[i]].code # 0

\* jobs == 1: run_argv_wait, first half: proc_spawn_nowait
CsSpawnSingle ==
  /\ pc = "cs_spawn1"
  /\ \E spawned \in BOOLEAN :
       IF spawned
       THEN /\ proc' = [proc EXCEPT ![cs_srcs[cs_i]] = [st |-> "run", code |-> 0]]
            /\ spawnOrder' = Append(spawnOrder, cs_srcs[cs_i])
            /\ compSpawned' = compSpawned \cup {cs_srcs[cs_i]}
            /\ lateSpawns' = IF JobFailed THEN lateSpawns + 1 ELSE lateSpawns
            /\ pc' = "cs_wait1"
            /\ UNCHANGED <<cs_failed, cs_rc, build_rc, since, lastCore, objs, core_objs>>
       ELSE /\ cs_failed' = TRUE
            /\ CsReturn(1)
            /\ UNCHANGED <<proc, spawnOrder, compSpawned, lateSpawns>>
  /\ UNCHANGED <<fs, depText, now, force, jobs, use_core, srcs, cs_srcs,
                 cs_objd, cs_depd, cs_jobs, cs_i, cs_k, running, out_objs,
                 cs_ret, link_proc, waitOrder, linkSpawned, wroteAll, scen,
                 exe0, onr_ret, builds,
                 edits>>
  /\ UNCHANGED <<cfgVars, scanVars, execVars, iniVars, buildVars>>

\* jobs == 1: run_argv_wait, second half: proc_wait, then "if (rc != 0)"
CsWaitSingle ==
  /\ pc = "cs_wait1"
  /\ proc[cs_srcs[cs_i]].st = "exited"
  /\ LET rc == proc_wait(proc[cs_srcs[cs_i]])
     IN /\ proc' = [proc EXCEPT ![cs_srcs[cs_i]].st = "waited"]
        /\ waitOrder' = Append(waitOrder, cs_srcs[cs_i])
        /\ cs_failed' = (cs_failed \/ rc # 0)
        /\ IF ExitFailed(rc)
           THEN CsReturn(1) /\ UNCHANGED cs_i
           ELSE /\ cs_i' = cs_i + 1
                /\ pc' = "cs_loop"
                /\ UNCHANGED <<cs_rc, build_rc, since, lastCore, objs, core_objs>>
  /\ UNCHANGED <<fs, depText, now, force, jobs, use_core, srcs, cs_srcs,
                 cs_objd, cs_depd, cs_jobs, cs_k, running, out_objs, cs_ret,
                 link_proc, spawnOrder, compSpawned, linkSpawned, wroteAll,
                 scen, exe0, onr_ret, builds,
                 edits>>
  /\ UNCHANGED <<cfgVars, scanVars, execVars, iniVars, histVars, buildVars>>

\* jobs > 1, window full: proc_wait(&running[0]) and shift the array
CsWaitOldest ==
  /\ pc = "cs_full"
  /\ proc[running[WaitSlot(running)]].st = "exited"
  /\ LET rcw == proc_wait(proc[running[WaitSlot(running)]])
     IN /\ proc' = [proc EXCEPT ![running[WaitSlot(running)]].st = "waited"]
        /\ waitOrder' = Append(waitOrder, running[WaitSlot(running)])
        /\ running' = Tail(running)
        /\ cs_failed' = (cs_failed \/ rcw # 0)
        /\ IF ExitFailed(rcw)
           THEN CsReturn(1)
           ELSE /\ pc' = "cs_spawn"
                /\ UNCHANGED <<cs_rc, build_rc, since, lastCore, objs, core_objs>>
  /\ UNCHANGED <<fs, depText, now, force, jobs, use_core, srcs, cs_srcs,
                 cs_objd, cs_depd, cs_jobs, cs_i, cs_k, out_objs, cs_ret,
                 link_proc, spawnOrder, compSpawned, linkSpawned, wroteAll,
                 scen, exe0, onr_ret, builds,
                 edits>>
  /\ UNCHANGED <<cfgVars, scanVars, execVars, iniVars, histVars, buildVars>>

\* jobs > 1: proc_spawn_nowait(av.a, &running[running_n])
CsSpawn ==
  /\ pc = "cs_spawn"
  /\ \E spawned \in BOOLEAN :
       IF spawned
       THEN /\ proc' = [proc EXCEPT ![cs_srcs[cs_i]] = [st |-> "run", code |-> 0]]
            /\ running' = Append(running, cs_srcs[cs_i])
            /\ spawnOrder' = Append(spawnOrder, cs_srcs[cs_i])
            /\ compSpawned' = compSpawned \cup {cs_srcs[cs_i]}
            /\ cs_i' = cs_i + 1
            /\ lateSpawns' = IF JobFailed THEN lateSpawns + 1 ELSE lateSpawns
            /\ pc' = "cs_loop"
            /\ UNCHANGED <<cs_failed, cs_rc, build_rc, since, lastCore, objs, core_objs>>
       ELSE /\ cs_failed' = TRUE
            /\ CsReturn(1)
            /\ UNCHANGED <<proc, running, spawnOrder, compSpawned, cs_i, lateSpawns>>
  /\ UNCHANGED <<fs, depText, now, force, jobs, use_core, srcs, cs_srcs,
                 cs_objd, cs_depd, cs_jobs, cs_k, out_objs, cs_ret,
                 link_proc, waitOrder, linkSpawned, wroteAll, scen, exe0,
                 onr_ret, builds,
                 edits>>
  /\ UNCHANGED <<cfgVars, scanVars, execVars, iniVars, buildVars>>

\* jobs > 1: the final loop over running[0..running_n-1]
CsDrain ==
  /\ pc = "cs_drain"
  /\ IF DrainDone
     THEN /\ CsReturn(0)
          /\ UNCHANGED <<proc, waitOrder, cs_k, cs_failed>>
     ELSE /\ proc[running[cs_k]].st = "exited"
          /\ LET rc == proc_wait(proc[running[cs_k]])
             IN /\ proc' = [proc EXCEPT ![running[cs_k]].st = "waited"]
                /\ waitOrder' = Append(waitOrder, running[cs_k])
                /\ cs_failed' = (cs_failed \/ rc # 0)
                /\ IF ExitFailed(rc)
                   THEN CsReturn(1) /\ UNCHANGED cs_k
                   ELSE /\ cs_k' = cs_k + 1
                        /\ UNCHANGED <<pc, cs_rc, build_rc, since,
                                       lastCore, objs, core_objs>>
  /\ UNCHANGED <<fs, depText, now, force, jobs, use_core, srcs, cs_srcs,
                 cs_objd, cs_depd, cs_jobs, cs_i, running, out_objs, cs_ret,
                 link_proc, spawnOrder, compSpawned, linkSpawned, wroteAll,
                 scen, exe0, onr_ret, builds,
                 edits>>
  /\ UNCHANGED <<cfgVars, scanVars, execVars, iniVars, histVars, buildVars>>

----------------------------------------------------------------------------
(* Build orchestrator: build_core, build_one_target, link_executable *)

\* scan_dir_recursive_suffix: the files of the directory that exist
ScanDir(list) == SelectSeq(list, file_exists)

\* no process of an earlier batch is still running
Quiet == \A s \in AllSrcs : proc[s].st # "run"

\* mutant of EffectiveUseCore: --no-core is not honoured
EffectiveUseCoreAlways(ov_core, nc) == ov_core

\* "use_core = 0; if (ov) use_core = ov->use_core; if (no_core) use_core = 0;"
\* with ov_core the use_core of the override, false when there is none
EffectiveUseCore(ov_core, nc) == ov_core /\ ~nc

\* build_one_target of target t up to the "no sources" check: the override
\* is resolved and the sources are scanned; frc is --rebuild, j is -j,
\* ov_core the use_core of the resolved override, nc is --no-core
BuildStart(t, frc, j, ov_core, nc) ==
  /\ pc = "idle"
  /\ Quiet
  /\ builds < MaxBuilds
  /\ builds' = builds + 1
  /\ UNCHANGED edits
  /\ force' = frc
  /\ jobs' = j
  /\ tgt' = t
  /\ ov_use_core' = ov_core
  /\ no_core' = nc
  /\ use_core' = EffectiveUseCore(ov_core, nc)
  /\ link_all' = <<>>
  /\ phases' = <<"resolve", "scan">>
  /\ lateWrites' = {}
  /\ UNCHANGED prevBuild
  /\ srcs' = ScanDir(SrcsOf(t))
  /\ objs' = <<>>
  /\ core_objs' = <<>>
  /\ compSpawned' = {}
  /\ linkSpawned' = 0
  /\ wroteAll' = TRUE
  /\ exe0' = file_mtime(ExePathOf(t))
  /\ scen' = IF use_core' = lastCore /\ t = tgt THEN since ELSE NoChange
  /\ since' = NoChange
  /\ IF Len(srcs') = 0
     THEN pc' = "returned" /\ build_rc' = 1
     ELSE /\ pc' = IF use_core' THEN "build_core" ELSE "compile_target"
          /\ build_rc' = -1
  /\ proc' = [s \in AllSrcs |-> NoProc]
  /\ link_proc' = NoProc
  /\ UNCHANGED <<fs, depText, now, cs_srcs, cs_objd, cs_depd, cs_jobs, cs_i,
                 cs_k, running, out_objs, cs_ret, cs_rc, spawnOrder,
                 waitOrder, cs_failed, lastCore, onr_ret>>
  /\ UNCHANGED <<cfgVars, scanVars, execVars, iniVars, histVars>>

\* mutant of CoreObjdFor: every target keeps core objects of its own
CoreObjdPerTarget(t) == IF t = OtherTarget THEN OtherObjd ELSE CoreObjd

\* build_paths(root, objd, depd, bind, "_core", p): the object directory of
\* the core, whatever target t is being built
CoreObjdFor(t) == CoreObjd

\* build_core: no core directory or no core source returns 0, otherwise the
\* core sources are handed to compile_sources
BuildCore ==
  /\ pc = "build_core"
  /\ IF Len(ScanDir(CoreSrcs)) = 0
     THEN /\ pc' = "compile_target"
          /\ UNCHANGED <<cs_srcs, cs_objd, cs_depd, cs_jobs, cs_i, cs_k,
                         running, out_objs, cs_ret, cs_rc, spawnOrder,
                         waitOrder, cs_failed, lateSpawns>>
     ELSE CsBegin(ScanDir(CoreSrcs), CoreObjdFor(tgt), CoreDepd, jobs, "core")
  /\ phases' = Append(phases, "core")
  /\ UNCHANGED <<tgt, ov_use_core, no_core, link_all, prevBuild, lateWrites>>
  /\ UNCHANGED <<proc, fs, depText, now, force, jobs, use_core, srcs, objs,
                 core_objs, build_rc, link_proc, compSpawned, linkSpawned,
                 wroteAll, since, scen, lastCore, exe0, onr_ret, builds,
                 edits>>
  /\ UNCHANGED <<cfgVars, scanVars, execVars, iniVars>>

\* build_one_target: "compile target sources"
CompileTarget ==
  /\ pc = "compile_target"
  /\ CsBegin(srcs, ObjdOfTarget(tgt), DepdOfTarget(tgt), jobs, "target")
  /\ phases' = Append(phases, "compile")
  /\ UNCHANGED <<tgt, ov_use_core, no_core, link_all, prevBuild, lateWrites>>
  /\ UNCHANGED <<proc, fs, depText, now, force, jobs, use_core, srcs, objs,
                 core_objs, build_rc, link_proc, compSpawned, linkSpawned,
                 wroteAll, since, scen, lastCore, exe0, onr_ret, builds,
                 edits>>
  /\ UNCHANGED <<cfgVars, scanVars, execVars, iniVars>>

\* mutant of ObjForcesLink: an object as old as the binary forces a link too
ObjForcesLinkEqual(ot, exe_t) == ot < 0 \/ ot >= exe_t

\* "if (ot < 0 || ot > exe_t)"
ObjForcesLink(ot, exe_t) == ot < 0 \/ ot > exe_t

\* mutant of NeedLink: the core objects are left out of the comparison
NeedLinkTargetOnly(all) ==
  \/ force
  \/ ~file_exists(ExePathOf(tgt))
  \/ \E i \in 1..Len(objs) :
       ObjForcesLink(file_mtime(objs[i]), file_mtime(ExePathOf(tgt)))

\* need_link of build_one_target
NeedLink(all) ==
  \/ force
  \/ ~file_exists(ExePathOf(tgt))
  \/ \E i \in 1..Len(all) :
       ObjForcesLink(file_mtime(all[i]), file_mtime(ExePathOf(tgt)))

\* the link block of build_one_target up to the spawn inside link_executable
LinkDecide ==
  /\ pc = "link_decide"
  /\ IF NeedLink(objs \o core_objs)
     THEN /\ link_all' = objs \o core_objs
          /\ phases' = phases \o <<"decide", "link">>
          /\ \E spawned \in BOOLEAN :
               IF spawned
               THEN /\ link_proc' = [st |-> "run", code |-> 0]
                    /\ linkSpawned' = linkSpawned + 1
                    /\ pc' = "link_wait"
                    /\ UNCHANGED <<build_rc, since, lastCore>>
               ELSE /\ link_proc' = [st |-> "spawn_failed", code |-> 1]
                    /\ BuildReturn(1)
                    /\ UNCHANGED linkSpawned
     ELSE /\ BuildReturn(0)
          /\ phases' = Append(phases, "decide")
          /\ UNCHANGED <<link_proc, linkSpawned, link_all>>
  /\ UNCHANGED <<tgt, ov_use_core, no_core, prevBuild, lateWrites>>
  /\ UNCHANGED <<fs, depText, now, force, jobs, use_core, srcs, objs,
                 core_objs, cs_srcs, cs_objd, cs_depd, cs_jobs, cs_i, cs_k,
                 running, out_objs, cs_ret, cs_rc, proc, spawnOrder,
                 waitOrder, cs_failed, compSpawned, wroteAll, scen, exe0,
                 onr_ret, builds,
                 edits>>
  /\ UNCHANGED <<cfgVars, scanVars, execVars, iniVars, histVars>>

\* the linker can read every object it is given
CanLink == \A i \in 1..Len(objs \o core_objs) : file_exists((objs \o core_objs)[i])

\* the running linker ends: exit 0 with the binary written, exit 0 with
\* nothing written, or a non-zero exit
LinkerExit ==
  /\ link_proc.st = "run"
  /\ \/ /\ CanLink
        /\ link_proc' = [st |-> "exited", code |-> 0]
        /\ fs' = [fs EXCEPT ![ExePathOf(tgt)] = now]
        /\ UNCHANGED wroteAll
     \/ /\ link_proc' = [st |-> "exited", code |-> 0]
        /\ wroteAll' = FALSE
        /\ UNCHANGED fs
     \/ /\ link_proc' = [st |-> "exited", code |-> 1]
        /\ UNCHANGED <<fs, wroteAll>>
  /\ UNCHANGED <<depText, now, pc, force, jobs, use_core, srcs, objs,
                 core_objs, build_rc, cs_srcs, cs_objd, cs_depd, cs_jobs,
                 cs_i, cs_k, running, out_objs, cs_ret, cs_rc, proc,
                 spawnOrder, waitOrder, cs_failed, compSpawned, linkSpawned,
                 since, scen, lastCore, exe0, onr_ret, builds,
                 edits>>
  /\ UNCHANGED <<cfgVars, scanVars, execVars, iniVars, histVars, buildVars>>

\* link_executable: proc_wait inside run_argv_wait, then "if (rc != 0)"
LinkWait ==
  /\ pc = "link_wait"
  /\ link_proc.st = "exited"
  /\ link_proc' = [link_proc EXCEPT !.st = "waited"]
  /\ BuildReturn(IF ExitFailed(proc_wait(link_proc)) THEN 1 ELSE 0)
  /\ UNCHANGED <<fs, depText, now, force, jobs, use_core, srcs, objs,
                 core_objs, cs_srcs, cs_objd, cs_depd, cs_jobs, cs_i, cs_k,
                 running, out_objs, cs_ret, cs_rc, proc, spawnOrder,
                 waitOrder, cs_failed, compSpawned, linkSpawned, wroteAll,
                 scen, exe0, onr_ret, builds,
                 edits>>
  /\ UNCHANGED <<cfgVars, scanVars, execVars, iniVars, histVars, buildVars>>

\* main returns build_one_target's result and the driver process ends; the
\* compiler processes it left un-waited live on
DriverExit ==
  /\ pc = "returned"
  /\ pc' = "idle"
  /\ force' = FALSE
  /\ jobs' = 1
  /\ use_core' = FALSE
  /\ srcs' = <<>>
  /\ objs' = <<>>
  /\ core_objs' = <<>>
  /\ build_rc' = -1
  /\ cs_srcs' = <<>>
  /\ cs_jobs' = 1
  /\ cs_i' = 1
  /\ cs_k' = 1
  /\ running' = <<>>
  /\ out_objs' = <<>>
  /\ cs_ret' = "target"
  /\ cs_rc' = -1
  /\ proc' = [s \in AllSrcs |-> IF proc[s].st = "run" THEN proc[s] ELSE NoProc]
  /\ link_proc' = NoProc
  /\ spawnOrder' = <<>>
  /\ waitOrder' = <<>>
  /\ cs_failed' = FALSE
  /\ lateSpawns' = 0
  /\ compSpawned' = {}
  /\ linkSpawned' = 0
  /\ wroteAll' = TRUE
  /\ scen' = NoChange
  /\ exe0' = -1
  /\ prevBuild' = IF build_rc = 0 /\ wroteAll
                  THEN [tgt |-> tgt, ok |-> TRUE, use_core |-> use_core,
                        core_objs |-> core_objs, link_all |-> link_all]
                  ELSE NoBuild
  /\ ov_use_core' = FALSE
  /\ no_core' = FALSE
  /\ link_all' = <<>>
  /\ phases' = <<>>
  /\ UNCHANGED <<tgt, lateWrites>>
  /\ UNCHANGED <<fs, depText, now, cs_objd, cs_depd, since, lastCore, onr_ret, builds,
                 edits>>
  /\ UNCHANGED <<cfgVars, scanVars, execVars, iniVars>>

----------------------------------------------------------------------------
(* The depfile grammar, read off the text as a whole: the dependency tokens *)
(* are the maximal runs of characters between unescaped white space after   *)
(* the first unescaped colon                                                *)

RECURSIVE Lex(_, _)
\* the text from pos on as items: a character of a token, a separator or an
\* unescaped colon
Lex(text, pos) ==
  IF pos > Len(text) THEN <<>>
  ELSE IF text[pos] = "\\"
  THEN IF pos = Len(text) THEN <<>>
       ELSE IF text[pos + 1] \in {"\n", "\r"} THEN Lex(text, pos + 2)
       ELSE <<[k |-> "ch", c |-> text[pos + 1]]>> \o Lex(text, pos + 2)
  ELSE IF isspace(text[pos]) THEN <<[k |-> "sp", c |-> " "]>> \o Lex(text, pos + 1)
  ELSE IF text[pos] = ":" THEN <<[k |-> "colon", c |-> ":"]>> \o Lex(text, pos + 1)
  ELSE <<[k |-> "ch", c |-> text[pos]]>> \o Lex(text, pos + 1)

DepTokens(text) ==
  LET items == Lex(text, 1)
      colons == {i \in 1..Len(items) : items[i].k = "colon"}
  IN IF colons = {} THEN {}
     ELSE LET first == CHOOSE i \in colons : \A j \in colons : i <= j
              IsSep(i) == i <= first \/ i > Len(items) \/ items[i].k = "sp"
          IN {[n \in 1..(hi - lo + 1) |-> items[lo + n - 1].c] :
                <<lo, hi>> \in {w \in (1..Len(items)) \X (1..Len(items)) :
                                  /\ first < w[1]
                                  /\ w[1] <= w[2]
                                  /\ \A m \in w[1]..w[2] : ~IsSep(m)
                                  /\ IsSep(w[1] - 1)
                                  /\ IsSep(w[2] + 1)}}

----------------------------------------------------------------------------
(* The user and the clock, between two runs of the driver *)

UserFiles == Range(TargetSrcs) \cup Range(CoreSrcs) \cup {Hdr}

ObjdOf(s) == IF s \in Range(CoreSrcs) THEN CoreObjd ELSE TargetObjd
DepdOf(s) == IF s \in Range(CoreSrcs) THEN CoreDepd ELSE TargetDepd

\* the sources of the last build whose object depends on file f: f is the
\* source itself or is listed in the object's depfile
AffectedBy(f) ==
  {s \in Range(ScanDir(TargetSrcs))
         \cup (IF lastCore THEN Range(ScanDir(CoreSrcs)) ELSE {}) :
     \/ s = f
     \/ /\ file_exists(DepPathOf(DepdOf(s), s))
        /\ f \in DepTokens(depText[DepPathOf(DepdOf(s), s)])}

Tick ==
  /\ now < MaxTime
  /\ now' = now + 1
  /\ UNCHANGED <<fs, depText, pc, force, jobs, use_core, srcs, objs,
                 core_objs, build_rc, cs_srcs, cs_objd, cs_depd, cs_jobs,
                 cs_i, cs_k, running, out_objs, cs_ret, cs_rc, proc,
                 link_proc, spawnOrder, waitOrder, cs_failed, compSpawned,
                 linkSpawned, wroteAll, since, scen, lastCore, exe0, onr_ret, builds,
                 edits>>
  /\ UNCHANGED <<cfgVars, scanVars, execVars, iniVars, histVars, buildVars>>

\* the user saves (or creates) file f: its mtime becomes the current second
Touch(f) ==
  /\ pc = "idle"
  /\ Quiet
  /\ edits < MaxEdits
  /\ edits' = edits + 1
  /\ UNCHANGED builds
  /\ fs[f] < now
  /\ fs' = [fs EXCEPT ![f] = now]
  /\ since' = IF /\ since.kind = "same"
                 /\ file_exists(f)
                 /\ AffectedBy(f) # {}
                 /\ \A s \in AffectedBy(f) :
                      now > file_mtime(ObjPathOf(ObjdOf(s), s))
              THEN [kind |-> "touch", file |-> f, affected |-> AffectedBy(f)]
              ELSE NoChange
  /\ UNCHANGED <<depText, now, pc, force, jobs, use_core, srcs, objs,
                 core_objs, build_rc, cs_srcs, cs_objd, cs_depd, cs_jobs,
                 cs_i, cs_k, running, out_objs, cs_ret, cs_rc, proc,
                 link_proc, spawnOrder, waitOrder, cs_failed, compSpawned,
                 linkSpawned, wroteAll, scen, lastCore, exe0, onr_ret>>
  /\ UNCHANGED <<cfgVars, scanVars, execVars, iniVars, histVars, buildVars>>

\* the user deletes file f
Delete(f) ==
  /\ pc = "idle"
  /\ Quiet
  /\ edits < MaxEdits
  /\ edits' = edits + 1
  /\ UNCHANGED builds
  /\ file_exists(f)
  /\ fs' = [fs EXCEPT ![f] = -1]
  /\ since' = IF /\ since.kind = "same"
                 /\ f \in Range(TargetSrcs)
                 /\ Len(ScanDir(TargetSrcs)) >= 2
              THEN [kind |-> "del", file |-> f, affected |-> {}]
              ELSE NoChange
  /\ UNCHANGED <<depText, now, pc, force, jobs, use_core, srcs, objs,
                 core_objs, build_rc, cs_srcs, cs_objd, cs_depd, cs_jobs,
                 cs_i, cs_k, running, out_objs, cs_ret, cs_rc, proc,
                 link_proc, spawnOrder, waitOrder, cs_failed, compSpawned,
                 linkSpawned, wroteAll, scen, lastCore, exe0, onr_ret>>
  /\ UNCHANGED <<cfgVars, scanVars, execVars, iniVars, histVars, buildVars>>

----------------------------------------------------------------------------
(* The driver building the target again and again in a changing tree *)

DriverInit ==
  /\ fs = [p \in Paths |->
             IF p \in UserFiles \cup Range(OtherSrcs) THEN 0 ELSE -1]
  /\ depText = [d \in DepPaths |-> <<>>]
  /\ now = 0
  /\ pc = "idle"
  /\ force = FALSE
  /\ jobs = 1
  /\ use_core = FALSE
  /\ srcs = <<>>
  /\ objs = <<>>
  /\ core_objs = <<>>
  /\ build_rc = -1
  /\ cs_srcs = <<>>
  /\ cs_objd = TargetObjd
  /\ cs_depd = TargetDepd
  /\ cs_jobs = 1
  /\ cs_i = 1
  /\ cs_k = 1
  /\ running = <<>>
  /\ out_objs = <<>>
  /\ cs_ret = "target"
  /\ cs_rc = -1
  /\ proc = [s \in AllSrcs |-> NoProc]
  /\ link_proc = NoProc
  /\ spawnOrder = <<>>
  /\ waitOrder = <<>>
  /\ cs_failed = FALSE
  /\ compSpawned = {}
  /\ linkSpawned = 0
  /\ wroteAll = TRUE
  /\ since = NoChange
  /\ scen = NoChange
  /\ lastCore = FALSE
  /\ exe0 = -1
  /\ onr_ret = -1
  /\ builds = 0
  /\ edits = 0
  /\ BuildIdle
  /\ ScanIdle /\ ExecIdle /\ IniIdle /\ HistIdle

Init == DriverInit /\ CfgIdle

Next ==
  \/ Tick
  \/ \E f \in UserFiles : Touch(f)
  \/ \E f \in UserFiles \cup {ExePath} : Delete(f)
  \/ \E frc \in BOOLEAN, j \in 1..MaxBuildJobs, ov_core \in BOOLEAN :
       BuildStart(MainTarget, frc, j, ov_core, FALSE)
  \/ BuildCore
  \/ CompileTarget
  \/ CsLoop
  \/ CsSpawnSingle
  \/ CsWaitSingle
  \/ CsWaitOldest
  \/ CsSpawn
  \/ CsDrain
  \/ \E s \in AllSrcs : CompilerExit(s)
  \/ LinkDecide
  \/ LinkerExit
  \/ LinkWait
  \/ DriverExit

Spec == Init /\ [][Next]_vars

----------------------------------------------------------------------------
(* The driver building two targets in turn in a tree nobody edits, with     *)
(* and without --no-core                                                    *)

NextCore ==
  \/ \E t \in {MainTarget, OtherTarget}, frc \in BOOLEAN,
        j \in 1..MaxBuildJobs, ov_core \in BOOLEAN, nc \in BOOLEAN :
       BuildStart(t, frc, j, ov_core, nc)
  \/ BuildCore
  \/ CompileTarget
  \/ CsLoop
  \/ CsSpawnSingle
  \/ CsWaitSingle
  \/ CsWaitOldest
  \/ CsSpawn
  \/ CsDrain
  \/ \E s \in AllSrcs : CompilerExit(s)
  \/ LinkDecide
  \/ LinkerExit
  \/ LinkWait
  \/ DriverExit

SpecCore == Init /\ [][NextCore]_vars

----------------------------------------------------------------------------
(* compile_sources driven on its own: every source list up to MaxSrcs,     *)
(* every -j value up to MaxJobs, every set of up-to-date objects           *)

\* the file system in which the objects of the sources in fresh are up to date
SchedFs(list, fresh) ==
  [p \in Paths |->
     IF p \in Range(list) \/ p = Hdr THEN 0
     ELSE IF \E s \in fresh : p \in {ObjPathOf(TargetObjd, s), DepPathOf(TargetDepd, s)}
          THEN 0
     ELSE -1]

InitSchedOn(pool) ==
  \E n \in 0..MaxSrcs, j \in 0..MaxJobs, frc \in BOOLEAN :
  \E fresh \in SUBSET Range(SubSeq(pool, 1, n)) :
    /\ fs = SchedFs(SubSeq(pool, 1, n), fresh)
    /\ depText = [d \in DepPaths |->
                    IF \E s \in fresh : d = DepPathOf(TargetDepd, s)
                    THEN DepTextOf(ObjPathOf(TargetObjd,
                                    CHOOSE s \in fresh : d = DepPathOf(TargetDepd, s)),
                                   CHOOSE s \in fresh : d = DepPathOf(TargetDepd, s))
                    ELSE <<>>]
    /\ now = 0
    /\ pc = "cs_loop"
    /\ force = frc
    /\ jobs = j
    /\ use_core = FALSE
    /\ srcs = <<>>
    /\ objs = <<>>
    /\ core_objs = <<>>
    /\ build_rc = -1
    /\ cs_srcs = SubSeq(pool, 1, n)
    /\ cs_objd = TargetObjd
    /\ cs_depd = TargetDepd
    /\ cs_jobs = IF j < 1 THEN 1 ELSE j
    /\ cs_i = 1
    /\ cs_k = 1
    /\ running = <<>>
    /\ out_objs = <<>>
    /\ cs_ret = "sched"
    /\ cs_rc = -1
    /\ proc = [s \in AllSrcs |-> NoProc]
    /\ link_proc = NoProc
    /\ spawnOrder = <<>>
    /\ waitOrder = <<>>
    /\ cs_failed = FALSE
    /\ compSpawned = {}
    /\ linkSpawned = 0
    /\ wroteAll = TRUE
    /\ since = NoChange
    /\ scen = NoChange
    /\ lastCore = FALSE
    /\ exe0 = -1
    /\ onr_ret = -1
    /\ builds = 0
    /\ edits = 0
    /\ CfgIdle
    /\ BuildIdle
    /\ ScanIdle /\ ExecIdle /\ IniIdle /\ HistIdle

\* compile_sources is called on the first sources of the pool
InitSched == InitSchedOn(PoolSrcs)

NextSched ==
  \/ CsLoop
  \/ CsSpawnSingle
  \/ CsWaitSingle
  \/ CsWaitOldest
  \/ CsSpawn
  \/ CsDrain
  \/ \E s \in AllSrcs : CompilerExit(s)

SpecSched == InitSched /\ [][NextSched]_vars

----------------------------------------------------------------------------
(* obj_needs_rebuild called on its own: every combination of force flag,    *)
(* mtimes of source, object and two candidate dependencies, and a range of  *)
(* depfile texts                                                            *)

OnrSrc == <<"a">>
OnrObj == ObjPathOf(TargetObjd, OnrSrc)
OnrDep == DepPathOf(TargetDepd, OnrSrc)

DepSamples ==
  { <<>>,
    <<"O", "a", ":", " ", "a", " ", "h", "\n">>,
    <<"O", "a", ":", " ", "a", " ", "\\", "\n", " ", "h", "\n">>,
    <<"O", "a", ":", "h">>,
    <<"O", "a", ":", " ", "b", " ", "h">>,
    <<"h", " ", "b">>,
    <<"h", " ", "O", "a", ":", " ", "a">>,
    <<"O", "a", ":", " ", "h", "\\", " ", "b", "\n">>,
    <<"O", "a", ":", " ", "h", ":", "\n">>,
    <<"O", "a", ":", " ", "h", "\\">>,
    <<"O", "\\", ":", "b", ":", " ", "h", "\n">>,
    <<"O", "a", ":", " ", "a", "\\", "\n", "h", "\n">>,
    <<"O", "a", ":", "\t", "b", "\r", "\n">>,
    <<"O", "a", ":", " ", "h", "\\", "\r", "\n", "b", "\\", ":", "\n">> }

InitDep ==
  \E ts \in -1..MaxTime, to \in -1..MaxTime, th \in -1..MaxTime,
     tb \in -1..MaxTime, hasDep \in BOOLEAN, frc \in BOOLEAN :
  \E text \in DepSamples :
    /\ fs = [p \in Paths |->
               IF p = OnrSrc THEN ts
               ELSE IF p = OnrObj THEN to
               ELSE IF p = Hdr THEN th
               ELSE IF p = <<"b">> THEN tb
               ELSE IF p = OnrDep /\ hasDep THEN 0
               ELSE -1]
    /\ depText = [d \in DepPaths |-> IF d = OnrDep THEN text ELSE <<>>]
    /\ now = MaxTime
    /\ pc = "onr_call"
    /\ force = frc
    /\ jobs = 1
    /\ use_core = FALSE
    /\ srcs = <<>>
    /\ objs = <<>>
    /\ core_objs = <<>>
    /\ build_rc = -1
    /\ cs_srcs = <<>>
    /\ cs_objd = TargetObjd
    /\ cs_depd = TargetDepd
    /\ cs_jobs = 1
    /\ cs_i = 1
    /\ cs_k = 1
    /\ running = <<>>
    /\ out_objs = <<>>
    /\ cs_ret = "sched"
    /\ cs_rc = -1
    /\ proc = [s \in AllSrcs |-> NoProc]
    /\ link_proc = NoProc
    /\ spawnOrder = <<>>
    /\ waitOrder = <<>>
    /\ cs_failed = FALSE
    /\ compSpawned = {}
    /\ linkSpawned = 0
    /\ wroteAll = TRUE
    /\ since = NoChange
    /\ scen = NoChange
    /\ lastCore = FALSE
    /\ exe0 = -1
    /\ onr_ret = -1
    /\ builds = 0
    /\ edits = 0
    /\ CfgIdle
    /\ BuildIdle
    /\ ScanIdle /\ ExecIdle /\ IniIdle /\ HistIdle

\* one call obj_needs_rebuild(obj_path, src, dep_path, force)
OnrCall ==
  /\ pc = "onr_call"
  /\ onr_ret' = IF obj_needs_rebuild(OnrObj, OnrSrc, OnrDep, force) THEN 1 ELSE 0
  /\ pc' = "onr_done"
  /\ UNCHANGED <<fs, depText, now, force, jobs, use_core, srcs, objs,
                 core_objs, build_rc, cs_srcs, cs_objd, cs_depd, cs_jobs,
                 cs_i, cs_k, running, out_objs, cs_ret, cs_rc, proc,
                 link_proc, spawnOrder, waitOrder, cs_failed, compSpawned,
                 linkSpawned, wroteAll, since, scen, lastCore, exe0, builds,
                 edits>>
  /\ UNCHANGED <<cfgVars, scanVars, execVars, iniVars, histVars, buildVars>>

NextDep == OnrCall

SpecDep == InitDep /\ [][NextDep]_vars

----------------------------------------------------------------------------
(* Claims about the dependency tracker, checked under SpecDep *)

\* C5: for an existing source, obj_needs_rebuild returns true exactly when
\* force is set, or the object is missing, or the source is strictly newer
\* than the object, or the depfile is missing, or a dependency listed in
\* the depfile is missing or strictly newer than the object; equal
\* timestamps do not make the object stale.
C5_NeedsRebuildExactly ==
  (pc = "onr_done" /\ file_exists(OnrSrc)) =>
    ((onr_ret = 1) <=>
       \/ force
       \/ ~file_exists(OnrObj)
       \/ file_mtime(OnrSrc) > file_mtime(OnrObj)
       \/ ~file_exists(OnrDep)
       \/ \E tok \in DepTokens(depText[OnrDep]) :
            ~file_exists(tok) \/ file_mtime(tok) > file_mtime(OnrObj))

\* C5 witness: source and a listed dependency carry the object's timestamp
\* and the call answered "up to date"
C5_Witness ==
  /\ pc = "onr_done"
  /\ onr_ret = 0
  /\ file_mtime(OnrSrc) = file_mtime(OnrObj)
  /\ Hdr \in DepTokens(depText[OnrDep])
  /\ file_mtime(Hdr) = file_mtime(OnrObj)

----------------------------------------------------------------------------
(* Claims about the job scheduler, checked under SpecSched *)

IsPrefix(s, t) == Len(s) <= Len(t) /\ SubSeq(t, 1, Len(s)) = s

\* C1: in compile_sources with parallelism N (a value below 1 counts as 1),
\* the number of processes spawned and not yet waited never exceeds N; with
\* N = 1 at most one process is un-waited at any time, so every job is waited
\* before the next one is spawned.
C1_WindowBound ==
  /\ cs_jobs = (IF jobs < 1 THEN 1 ELSE jobs)
  /\ Cardinality(Unwaited) <= cs_jobs
  /\ Len(spawnOrder) - Len(waitOrder) <= cs_jobs

\* C1 witness: three processes are in flight under -j 3 while a fourth job
\* waits for a free slot
C1_Witness ==
  /\ pc = "cs_full"
  /\ cs_jobs = MaxJobs
  /\ Cardinality(Unwaited) = MaxJobs

\* C2: the processes are waited in the order in which they were spawned: the
\* process waited when the window is full is the earliest spawned one that
\* is still tracked, the new job is spawned only after that wait, and a
\* batch that succeeds has waited every process it spawned, in spawn order.
C2_FifoWait ==
  /\ IsPrefix(waitOrder, spawnOrder)
  /\ (pc = "cs_spawn" => Len(spawnOrder) - Len(waitOrder) < cs_jobs)
  /\ (pc = "done" /\ cs_rc = 0 => waitOrder = spawnOrder)

\* C2 witness: the oldest process has just been waited although the next
\* tracked one, spawned later, has exited too; the new job is about to be
\* spawned
C2_Witness ==
  /\ pc = "cs_spawn"
  /\ cs_jobs > 1
  /\ Len(waitOrder) >= 1
  /\ Len(running) >= 1
  /\ proc[running[1]].st = "exited"

\* C3: once a wait has returned non-zero or a spawn has failed,
\* compile_sources spawns nothing more and has returned failure.
C3_StopOnFailure ==
  /\ [](cs_failed => pc = "done" /\ cs_rc # 0)
  /\ [][cs_failed => spawnOrder' = spawnOrder]_vars

\* C3 witness: a parallel batch returned failure with jobs left unspawned
C3_Witness ==
  /\ pc = "done"
  /\ cs_failed
  /\ cs_rc = 1
  /\ cs_jobs > 1
  /\ cs_i < Len(cs_srcs)
  /\ Len(waitOrder) >= 1
  /\ proc[waitOrder[Len(waitOrder)]].code # 0
  /\ Unwaited # {}

----------------------------------------------------------------------------
(* Claims about the build orchestrator, checked under Spec *)

LinkerSpawned == link_proc.st \in {"run", "exited", "waited"}

\* a compile of this build failed: a spawn failed, a wait returned non-zero,
\* or a compiler process exited non-zero
CompileFailed ==
  \/ cs_failed
  \/ \E s \in AllSrcs : proc[s].st \in {"exited", "waited"} /\ proc[s].code # 0

LinkFailed ==
  \/ link_proc.st = "spawn_failed"
  \/ link_proc.st \in {"exited", "waited"} /\ link_proc.code # 0

AllObjs == Range(objs) \cup Range(core_objs)

\* C4: within one build_one_target the linker is spawned only after every
\* compile process of the build, core and target, has been waited and has
\* exited 0; no compile process is un-waited while the linker exists.
C4_LinkAfterCompiles ==
  LinkerSpawned =>
    /\ Unwaited = {}
    /\ \A s \in compSpawned : proc[s].st = "waited" /\ proc[s].code = 0
    /\ \A s \in AllSrcs : s \notin compSpawned => proc[s].st = "none"

\* C4 witness: the linker runs after a parallel build compiled the core
\* source and all three target sources
C4_Witness ==
  /\ link_proc.st = "run"
  /\ use_core
  /\ cs_jobs > 1
  /\ compSpawned = Range(TargetSrcs) \cup Range(CoreSrcs)

\* C6: a build that follows a complete successful build of the same target
\* with the same use_core, without --rebuild and with no change to the tree
\* in between, spawns no compiler and no linker and returns 0.
C6_Idempotent ==
  (scen.kind = "same" /\ ~force) =>
    /\ compSpawned = {}
    /\ linkSpawned = 0
    /\ link_proc.st = "none"
    /\ (pc = "returned" => build_rc = 0)

\* C6 witness: the second build of the target with its core has returned
C6_Witness ==
  /\ pc = "returned"
  /\ scen.kind = "same"
  /\ ~force
  /\ use_core
  /\ build_rc = 0
  /\ Len(objs) = Len(TargetSrcs)
  /\ Len(core_objs) = Len(CoreSrcs)

\* C7: after a complete successful build, once the mtime of one source or
\* of one header listed in a depfile has been advanced past the mtime of the
\* objects depending on it, a rebuild compiles exactly those objects and
\* relinks the binary.
C7_ChangePropagates ==
  (scen.kind = "touch" /\ ~force) =>
    /\ compSpawned \subseteq scen.affected
    /\ (pc = "returned" /\ build_rc = 0 /\ wroteAll =>
          compSpawned = scen.affected /\ linkSpawned = 1)

\* C8: after a complete successful build of a target with two or more
\* sources, deleting one source and rebuilding compiles nothing for the
\* deleted file and relinks the binary.
C8_DeleteRelinks ==
  (scen.kind = "del" /\ ~force /\ pc = "returned" /\ build_rc = 0) =>
    /\ scen.file \notin compSpawned
    /\ linkSpawned = 1

\* the link condition as the claim states it
LinkCondStated ==
  \/ force
  \/ ~file_exists(ExePath)
  \/ \E o \in AllObjs : file_mtime(o) > file_mtime(ExePath)

\* the link condition with a missing object added
LinkCondAmended ==
  \/ LinkCondStated
  \/ \E o \in AllObjs : ~file_exists(o)

\* C9 as stated: after all compiles succeeded the linker is spawned if and
\* only if --rebuild is set, or the binary is missing, or an object of the
\* target or of the core is strictly newer than the binary; otherwise the
\* binary is left as it is.
C9_LinkIffStated ==
  /\ (pc = "link_wait" /\ link_proc.st = "run" => LinkCondStated)
  /\ (pc = "returned" /\ build_rc = 0 /\ linkSpawned = 0 =>
        ~LinkCondStated /\ file_mtime(ExePath) = exe0)

\* C9 as amended: the same with "or an object of the target or of the core
\* is missing" added to the conditions that spawn the linker.
C9_LinkIffAmended ==
  /\ (pc = "link_wait" /\ link_proc.st = "run" => LinkCondAmended)
  /\ (pc = "returned" /\ build_rc = 0 /\ linkSpawned = 0 =>
        ~LinkCondAmended /\ file_mtime(ExePath) = exe0)

\* C9 witness: a build with the core returned 0 without linking, binary and
\* objects in place
C9_Witness ==
  /\ pc = "returned"
  /\ build_rc = 0
  /\ linkSpawned = 0
  /\ use_core
  /\ Len(core_objs) > 0
  /\ file_exists(ExePath)

\* C10: a failed compile (core or target) or a failed link makes
\* build_one_target return non-zero, and after a failed compile no linker
\* is spawned and the binary keeps the mtime it had when the build started.
C10_FailureAborts ==
  /\ (pc = "returned" /\ (CompileFailed \/ LinkFailed) => build_rc # 0)
  /\ (pc # "idle" /\ CompileFailed =>
        linkSpawned = 0 /\ link_proc.st = "none" /\ file_mtime(ExePath) = exe0)

\* C10 witness: a core compile failed in a forced rebuild over an existing binary
C10_Witness ==
  /\ pc = "returned"
  /\ build_rc = 1
  /\ use_core
  /\ cs_ret = "core"
  /\ CompileFailed
  /\ exe0 >= 0

----------------------------------------------------------------------------
(* Configuration: strings and the target graph *)

\* g_default_target and the name discovery gives the primary target
AppName == <<"a", "p", "p">>
\* g_src_dir
SrcDir == <<"s", "r", "c">>
\* g_app_dir
AppDir == <<"s", "r", "c", "/", "a", "p", "p">>
\* g_tools_dir
ToolsDir == <<"t", "o", "o", "l", "s">>
\* the prefix discovery gives a tool's name
ToolPrefix == <<"t", "o", "o", "l", ":">>

\* char idbuf[256] in tv_push
IdCap == 256

\* isalnum in the C locale
isalnum(c) ==
  c \in {"a", "b", "c", "d", "e", "f", "g", "h", "i", "j", "k", "l", "m",
         "n", "o", "p", "q", "r", "s", "t", "u", "v", "w", "x", "y", "z",
         "A", "B", "C", "D", "E", "F", "G", "H", "I", "J", "K", "L", "M",
         "N", "O", "P", "Q", "R", "S", "T", "U", "V", "W", "X", "Y", "Z",
         "0", "1", "2", "3", "4", "5", "6", "7", "8", "9"}

\* the character sanitize_name_to_id stores for c
sanitize_name_char(c) ==
  IF isalnum(c) \/ c = "_" \/ c = "-" THEN c ELSE "_"

\* sanitize_name_to_id(out, cap, name): at most cap - 1 characters are stored
sanitize_name_to_id(cap, name) ==
  [i \in 1..(IF Len(name) < cap - 1 THEN Len(name) ELSE cap - 1) |->
     sanitize_name_char(name[i])]

\* path_join(out, a, b) with PATH_SEP '/'
path_join(a, b) ==
  IF Len(a) > 0 /\ a[Len(a)] # "/" THEN a \o <<"/">> \o b ELSE a \o b

\* a TargetDef; Null in src_dir, bin_base or id is the null pointer
TargetDef(name, src_dir, bin_base, id, enabled, remove) ==
  [name |-> name, src_dir |-> src_dir, bin_base |-> bin_base, id |-> id,
   enabled |-> enabled, remove |-> remove]

\* mutant of tv_find_index_by_name: the name is never found
tv_find_index_by_name_miss(v, name) == 0

\* tv_find_index_by_name: the first index with that name, 0 for -1
tv_find_index_by_name(v, name) ==
  IF \E i \in 1..Len(v) : v[i].name = name
  THEN CHOOSE i \in 1..Len(v) :
         v[i].name = name /\ \A j \in 1..(i - 1) : v[j].name # name
  ELSE 0

\* tv_remove_at
tv_remove_at(v, idx) ==
  IF idx < 1 \/ idx > Len(v) THEN v
  ELSE SubSeq(v, 1, idx - 1) \o SubSeq(v, idx + 1, Len(v))

\* mutant of tv_push: the name is taken as the id
tv_push_raw_id(v, name, src_dir, bin_base) ==
  Append(v, [name |-> name, id |-> name,
             src_dir |-> src_dir, bin_base |-> bin_base, enabled |-> TRUE])

\* tv_push
tv_push(v, name, src_dir, bin_base) ==
  Append(v, [name |-> name, id |-> sanitize_name_to_id(IdCap, name),
             src_dir |-> src_dir, bin_base |-> bin_base, enabled |-> TRUE])

\* tv_update_at_fields
tv_update_at_fields(v, idx, d) ==
  IF idx < 1 \/ idx > Len(v) THEN v
  ELSE [v EXCEPT ![idx] =
          [@ EXCEPT !.src_dir = IF d.src_dir # Null THEN d.src_dir ELSE @,
                    !.bin_base = IF d.bin_base # Null THEN d.bin_base ELSE @,
                    !.id = IF d.id # Null THEN d.id ELSE @]]

\* the upsert branch of tv_apply_targetdef
tv_upsert(v, d, idx) ==
  LET w == IF idx < 1
           THEN tv_push(v, d.name,
                        IF d.src_dir # Null THEN d.src_dir ELSE SrcDir,
                        IF d.bin_base # Null THEN d.bin_base ELSE AppName)
           ELSE v
      at == IF idx < 1 THEN Len(w) ELSE idx
  IN  [tv_update_at_fields(w, at, d) EXCEPT ![at].enabled = d.enabled]

\* mutant of tv_apply_targetdef: without the action-only branch, every def
\* that does not remove is an upsert
tv_apply_targetdef_loose(v, d) ==
  LET idx == tv_find_index_by_name(v, d.name)
  IN  IF d.name = Null THEN v
      ELSE IF d.remove THEN tv_remove_at(v, idx)
      ELSE tv_upsert(v, d, idx)

\* mutant of tv_apply_targetdef: remove is honoured only for a def that
\* carries no upsert field
tv_apply_targetdef_upsert_first(v, d) ==
  LET idx == tv_find_index_by_name(v, d.name)
  IN  IF d.name = Null THEN v
      ELSE IF d.src_dir = Null /\ d.bin_base = Null /\ d.id = Null
      THEN IF d.remove THEN tv_remove_at(v, idx)
           ELSE IF idx >= 1 THEN [v EXCEPT ![idx].enabled = d.enabled] ELSE v
      ELSE tv_upsert(v, d, idx)

\* tv_apply_targetdef
tv_apply_targetdef(v, d) ==
  LET idx == tv_find_index_by_name(v, d.name)
  IN  IF d.name = Null THEN v
      ELSE IF d.remove THEN tv_remove_at(v, idx)
      ELSE IF d.src_dir = Null /\ d.bin_base = Null /\ d.id = Null
      THEN IF idx >= 1 THEN [v EXCEPT ![idx].enabled = d.enabled] ELSE v
      ELSE tv_upsert(v, d, idx)

\* mutant of find_target: the enabled flag is not looked at
find_target_any(v, key) ==
  IF \E i \in 1..Len(v) : v[i].name = key \/ v[i].id = key
  THEN CHOOSE i \in 1..Len(v) :
         /\ v[i].name = key \/ v[i].id = key
         /\ \A j \in 1..(i - 1) : ~(v[j].name = key \/ v[j].id = key)
  ELSE 0

\* find_target: the index of the first enabled target whose name or id is
\* the key, 0 for the null pointer
find_target(v, key) ==
  LET hit(i) == v[i].enabled /\ (v[i].name = key \/ v[i].id = key)
  IN  IF \E i \in 1..Len(v) : hit(i)
      THEN CHOOSE i \in 1..Len(v) : hit(i) /\ \A j \in 1..(i - 1) : ~hit(j)
      ELSE 0

\* the tools/<name> half of discover_targets, in readdir order
RECURSIVE discover_tools(_, _)
discover_tools(v, dirs) ==
  IF dirs = <<>> THEN v
  ELSE discover_tools(tv_push(v, ToolPrefix \o Head(dirs),
                              path_join(ToolsDir, Head(dirs)), Head(dirs)),
                      Tail(dirs))

\* mutant of discover_targets: tools/ is walked whatever the flag says
discover_targets_always_tools(has_app_dir, dirs, disable_auto_tools) ==
  discover_tools(tv_push(<<>>, AppName,
                         IF has_app_dir THEN AppDir ELSE SrcDir, AppName),
                 dirs)

\* discover_targets(out, disable_auto_tools)
discover_targets(has_app_dir, dirs, disable_auto_tools) ==
  LET v == tv_push(<<>>, AppName, IF has_app_dir THEN AppDir ELSE SrcDir, AppName)
  IN  IF disable_auto_tools THEN v ELSE discover_tools(v, dirs)

----------------------------------------------------------------------------
(* Configuration: the declarative document and its loader *)

\* One line of a document as ini_load_file classifies it: a section header
\* ("project", "target" with its name, "other"), "kv" with the key in lower
\* case and the text that follows the '=', or "skip" for a line the loop
\* leaves with continue before it touches sec
Line(t, name, key, val) == [t |-> t, name |-> name, key |-> key, val |-> val]
ProjectHdr == Line("project", <<>>, "", <<>>)
TargetHdr(name) == Line("target", name, "", <<>>)
KV(key, val) == Line("kv", <<>>, key, val)

\* char tmp[1024] in split_list_semicolon
ItemCap == 1024

\* tolower in the C locale
tolower(c) ==
  LET up == <<"A", "B", "C", "D", "E", "F", "G", "H", "I", "J", "K", "L", "M",
              "N", "O", "P", "Q", "R", "S", "T", "U", "V", "W", "X", "Y", "Z">>
      lo == <<"a", "b", "c", "d", "e", "f", "g", "h", "i", "j", "k", "l", "m",
              "n", "o", "p", "q", "r", "s", "t", "u", "v", "w", "x", "y", "z">>
  IN  IF \E i \in 1..26 : up[i] = c THEN lo[CHOOSE i \in 1..26 : up[i] = c] ELSE c

\* strieq
strieq(a, b) ==
  Len(a) = Len(b) /\ \A i \in 1..Len(a) : tolower(a[i]) = tolower(b[i])

\* ltrim
RECURSIVE ltrim(_)
ltrim(s) == IF s # <<>> /\ isspace(Head(s)) THEN ltrim(Tail(s)) ELSE s

\* rtrim_inplace
RECURSIVE rtrim(_)
rtrim(s) ==
  IF s # <<>> /\ isspace(s[Len(s)]) THEN rtrim(SubSeq(s, 1, Len(s) - 1)) ELSE s

\* trim
trim(s) == rtrim(ltrim(s))

\* parse_bool: <<recognised, value>>
parse_bool(v) ==
  IF \E w \in {<<"1">>, <<"y", "e", "s">>, <<"t", "r", "u", "e">>, <<"o", "n">>} :
       strieq(v, w)
  THEN <<TRUE, TRUE>>
  ELSE IF \E w \in {<<"0">>, <<"n", "o">>, <<"f", "a", "l", "s", "e">>,
                    <<"o", "f", "f">>} : strieq(v, w)
  THEN <<TRUE, FALSE>>
  ELSE <<FALSE, FALSE>>

\* the first position from p on where v has a ';', Len(v) + 1 if none
RECURSIVE item_end(_, _)
item_end(v, p) ==
  IF p > Len(v) \/ v[p] = ";" THEN p ELSE item_end(v, p + 1)

\* the loop of split_list_semicolon from position p on
RECURSIVE split_from(_, _, _)
split_from(out, v, p) ==
  IF p > Len(v) THEN out
  ELSE IF v[p] = ";" \/ isspace(v[p]) THEN split_from(out, v, p + 1)
  ELSE LET q == item_end(v, p)
           n == IF q - p >= ItemCap THEN ItemCap - 1 ELSE q - p
           item == trim(SubSeq(v, p, p + n - 1))
       IN  split_from(IF item # <<>> THEN Append(out, item) ELSE out, v,
                      IF q <= Len(v) THEN q + 1 ELSE q)

\* split_list_semicolon into an empty StrVec
split_list_semicolon(v) == split_from(<<>>, v, 1)

\* the IniTargetCfg that ini_get_or_add_target creates
NewIniTarget(name) ==
  [name |-> name, src_dir |-> Null, bin_base |-> Null, id |-> Null,
   enabled_set |-> FALSE, enabled |-> TRUE,
   remove_set |-> FALSE, remove |-> FALSE,
   core_set |-> FALSE, core |-> FALSE,
   includes |-> <<>>, defines |-> <<>>, cflags |-> <<>>, ldflags |-> <<>>,
   libs |-> <<>>]

\* the index of the entry called name in a vector of named records, 0 if none
index_by_name(v, name) ==
  IF \E i \in 1..Len(v) : v[i].name = name
  THEN CHOOSE i \in 1..Len(v) :
         v[i].name = name /\ \A j \in 1..(i - 1) : v[j].name # name
  ELSE 0

\* ini_get_or_add_target: the vector afterwards (the entry is index_by_name)
ini_get_or_add_target(targets, name) ==
  IF index_by_name(targets, name) # 0 THEN targets
  ELSE Append(targets, NewIniTarget(name))

\* the key = value branch of ini_load_file for an open target section
ini_target_key(t, key, val) ==
  LET b == parse_bool(val)
  IN  CASE key = "src" -> [t EXCEPT !.src_dir = val]
        [] key = "bin" -> [t EXCEPT !.bin_base = val]
        [] key = "id" -> [t EXCEPT !.id = val]
        [] key = "enabled" ->
             IF b[1] THEN [t EXCEPT !.enabled_set = TRUE, !.enabled = b[2]] ELSE t
        [] key = "remove" ->
             IF b[1] THEN [t EXCEPT !.remove_set = TRUE, !.remove = b[2]] ELSE t
        [] key = "core" ->
             IF b[1] THEN [t EXCEPT !.core_set = TRUE, !.core = b[2]] ELSE t
        [] key = "includes" -> [t EXCEPT !.includes = split_list_semicolon(val)]
        [] key = "defines" -> [t EXCEPT !.defines = split_list_semicolon(val)]
        [] key = "cflags" -> [t EXCEPT !.cflags = split_list_semicolon(val)]
        [] key = "ldflags" -> [t EXCEPT !.ldflags = split_list_semicolon(val)]
        [] key = "libs" -> [t EXCEPT !.libs = split_list_semicolon(val)]
        [] OTHER -> t

\* the body of the fgets loop of ini_load_file for one line; st holds sec,
\* cur_t (an index, 0 = null), g_ini_targets and the two project globals
ini_line(st, ln) ==
  CASE ln.t = "skip" -> st
    [] ln.t = "project" -> [st EXCEPT !.sec = "project", !.cur = 0]
    [] ln.t = "target" ->
         IF ln.name # <<>>
         THEN LET ts == ini_get_or_add_target(st.targets, ln.name)
              IN  [st EXCEPT !.sec = "target", !.targets = ts,
                             !.cur = index_by_name(ts, ln.name)]
         ELSE [st EXCEPT !.sec = "none", !.cur = 0]
    [] ln.t = "kv" ->
         LET val == trim(ln.val)
         IN  IF st.sec = "project"
             THEN IF ln.key = "default_target"
                  THEN [st EXCEPT !.default_target = val]
                  ELSE IF ln.key = "disable_auto_tools" /\ parse_bool(val)[1]
                  THEN [st EXCEPT !.disable_auto_tools = parse_bool(val)[2]]
                  ELSE st
             ELSE IF st.sec = "target" /\ st.cur # 0
             THEN [st EXCEPT !.targets[st.cur] = ini_target_key(@, ln.key, val)]
             ELSE st
    [] OTHER -> [st EXCEPT !.sec = "none", !.cur = 0]

RECURSIVE ini_lines(_, _)
ini_lines(st, lines) ==
  IF lines = <<>> THEN st ELSE ini_lines(ini_line(st, Head(lines)), Tail(lines))

\* mutant of ini_load_file: every document starts from the project
\* settings of config_reset
ini_load_file_reset(lines, targets, default_target, disable_auto_tools) ==
  ini_lines([sec |-> "none", cur |-> 0, targets |-> <<>>,
             default_target |-> Null, disable_auto_tools |-> FALSE], lines)

\* mutant of ini_load_file: the targets of an earlier document are kept
ini_load_file_keep(lines, targets, default_target, disable_auto_tools) ==
  ini_lines([sec |-> "none", cur |-> 0, targets |-> targets,
             default_target |-> default_target,
             disable_auto_tools |-> disable_auto_tools], lines)

\* ini_load_file on a file that opens: ini_targets_init and
\* ini_overrides_init drop what an earlier document left, the project
\* globals are kept; the result holds g_ini_targets and the two globals
ini_load_file(lines, targets, default_target, disable_auto_tools) ==
  ini_lines([sec |-> "none", cur |-> 0, targets |-> <<>>,
             default_target |-> default_target,
             disable_auto_tools |-> disable_auto_tools], lines)

\* the TargetOverride that ini_get_or_add_override creates
NewOverride(name) ==
  [name |-> name, includes |-> <<>>, defines |-> <<>>, cflags |-> <<>>,
   ldflags |-> <<>>, libs |-> <<>>, use_core |-> FALSE]

\* an IniTargetCfg asks for an override: "need" in ini_materialize_overrides
ini_need_override(t) ==
  \/ t.includes # <<>> \/ t.defines # <<>> \/ t.cflags # <<>>
  \/ t.ldflags # <<>> \/ t.libs # <<>>
  \/ t.core_set

\* the body of the loop of ini_materialize_overrides for g_ini_targets[i]:
\* sv_to_strlist_own moves each list out of the IniTargetCfg
RECURSIVE ini_materialize_from(_, _, _)
ini_materialize_from(targets, overrides, i) ==
  IF i > Len(targets) THEN [targets |-> targets, overrides |-> overrides]
  ELSE IF ~ini_need_override(targets[i])
  THEN ini_materialize_from(targets, overrides, i + 1)
  ELSE LET t == targets[i]
           ovs == IF index_by_name(overrides, t.name) # 0 THEN overrides
                  ELSE Append(overrides, NewOverride(t.name))
           k == index_by_name(ovs, t.name)
           pick(new, old) == IF new # <<>> THEN new ELSE old
           ov == [name |-> ovs[k].name,
                  includes |-> pick(t.includes, ovs[k].includes),
                  defines |-> pick(t.defines, ovs[k].defines),
                  cflags |-> pick(t.cflags, ovs[k].cflags),
                  ldflags |-> pick(t.ldflags, ovs[k].ldflags),
                  libs |-> pick(t.libs, ovs[k].libs),
                  use_core |-> IF t.core_set THEN t.core ELSE ovs[k].use_core]
       IN  ini_materialize_from(
             [targets EXCEPT ![i] = [t EXCEPT !.includes = <<>>,
                                              !.defines = <<>>,
                                              !.cflags = <<>>,
                                              !.ldflags = <<>>,
                                              !.libs = <<>>]],
             [ovs EXCEPT ![k] = ov], i + 1)

\* ini_materialize_overrides
ini_materialize_overrides(targets, overrides) ==
  ini_materialize_from(targets, overrides, 1)

\* the TargetDef apply_ini_targets makes of one IniTargetCfg
ini_targetdef(t) ==
  IF t.remove_set /\ t.remove
  THEN TargetDef(t.name, Null, Null, Null, FALSE, TRUE)
  ELSE IF t.src_dir = Null /\ t.bin_base = Null /\ t.id = Null /\ t.enabled_set
  THEN TargetDef(t.name, Null, Null, Null, t.enabled, FALSE)
  ELSE TargetDef(t.name, t.src_dir, t.bin_base, t.id,
                 IF t.enabled_set THEN t.enabled ELSE TRUE, FALSE)

\* the loop of apply_ini_targets
RECURSIVE apply_targetdefs(_, _, _)
apply_targetdefs(v, targets, i) ==
  IF i > Len(targets) THEN v
  ELSE apply_targetdefs(tv_apply_targetdef(v, ini_targetdef(targets[i])),
                        targets, i + 1)

\* apply_ini_targets: the graph afterwards
apply_ini_targets(v, loaded, targets) ==
  IF ~loaded THEN v ELSE apply_targetdefs(v, targets, 1)

\* g_overrides: the built-in record for "app"
BuiltinOverrides ==
  << [name |-> AppName, includes |-> <<SrcDir>>, defines |-> <<>>,
      cflags |-> <<>>, ldflags |-> <<>>, libs |-> <<>>, use_core |-> TRUE] >>

\* the record find_override returns when it returns the null pointer
NoOverride == NewOverride(Null)

\* mutant of find_override: the built-in table is searched first
find_override_builtin_first(overrides, name) ==
  IF index_by_name(BuiltinOverrides, name) # 0
  THEN BuiltinOverrides[index_by_name(BuiltinOverrides, name)]
  ELSE IF index_by_name(overrides, name) # 0
  THEN overrides[index_by_name(overrides, name)]
  ELSE NoOverride

\* find_override in a build without TACK_USE_TACKFILE: g_ini_overrides
\* first, then g_overrides
find_override(overrides, name) ==
  IF index_by_name(overrides, name) # 0
  THEN overrides[index_by_name(overrides, name)]
  ELSE IF index_by_name(BuiltinOverrides, name) # 0
  THEN BuiltinOverrides[index_by_name(BuiltinOverrides, name)]
  ELSE NoOverride

\* default_target_name
default_target_name(dt) == IF dt # Null THEN dt ELSE AppName

----------------------------------------------------------------------------
(* Configuration: the generator that turns tackfile.c into a document *)

\* a TargetOverride of tackfile.c
Override(name, includes, defines, cflags, ldflags, libs, core) ==
  [name |-> name, includes |-> includes, defines |-> defines,
   cflags |-> cflags, ldflags |-> ldflags, libs |-> libs,
   use_core |-> core]

\* the items of a list with ';' between them
RECURSIVE join_semicolon(_)
join_semicolon(lst) ==
  IF lst = <<>> THEN <<>>
  ELSE IF Len(lst) = 1 THEN lst[1]
  ELSE lst[1] \o <<";">> \o join_semicolon(Tail(lst))

\* the text the generator prints after "key =" for a string
gen_value(s) == <<" ">> \o s \o <<"\n">>

\* emit_list of the generator
emit_list(key, lst) ==
  IF lst = <<>> THEN <<>> ELSE <<KV(key, gen_value(join_semicolon(lst)))>>

\* the lines the generator prints for one TargetDef
emit_targetdef(td) ==
  <<TargetHdr(td.name)>>
  \o (IF td.src_dir # Null THEN <<KV("src", gen_value(td.src_dir))>> ELSE <<>>)
  \o (IF td.bin_base # Null THEN <<KV("bin", gen_value(td.bin_base))>> ELSE <<>>)
  \o (IF td.id # Null THEN <<KV("id", gen_value(td.id))>> ELSE <<>>)
  \o (IF td.remove THEN <<KV("remove", gen_value(<<"y", "e", "s">>))>>
      ELSE IF td.src_dir = Null /\ td.bin_base = Null /\ td.id = Null
      THEN <<KV("enabled", gen_value(IF td.enabled THEN <<"y", "e", "s">>
                                                    ELSE <<"n", "o">>))>>
      ELSE <<>>)

\* the lines the generator prints for one TargetOverride
emit_override(ov) ==
  <<TargetHdr(ov.name),
    KV("core", gen_value(IF ov.use_core THEN <<"y", "e", "s">> ELSE <<"n", "o">>))>>
  \o emit_list("includes", ov.includes)
  \o emit_list("defines", ov.defines)
  \o emit_list("cflags", ov.cflags)
  \o emit_list("ldflags", ov.ldflags)
  \o emit_list("libs", ov.libs)

\* the loop over TACKFILE_TARGETS
RECURSIVE emit_targets(_)
emit_targets(lst) ==
  IF lst = <<>> THEN <<>>
  ELSE emit_targetdef(Head(lst)) \o emit_targets(Tail(lst))

\* the loop over TACKFILE_OVERRIDES
RECURSIVE emit_overrides(_)
emit_overrides(lst) ==
  IF lst = <<>> THEN <<>>
  ELSE emit_override(Head(lst)) \o emit_overrides(Tail(lst))

\* main of the generator: the document written for the macros of tackfile.c
generated_ini(tf) ==
  <<ProjectHdr>>
  \o (IF tf.default_target # Null
      THEN <<KV("default_target", gen_value(tf.default_target))>> ELSE <<>>)
  \o (IF tf.disable_auto_tools
      THEN <<KV("disable_auto_tools", gen_value(<<"y", "e", "s">>))>> ELSE <<>>)
  \o emit_targets(tf.targets)
  \o emit_overrides(tf.overrides)

----------------------------------------------------------------------------
(* Configuration: main from its global options to the command *)

\* the inputs of one invocation: options and files
cfgInputs == <<g_no_config, g_config_path_cli, g_no_auto_tools_cli, tackfile,
               tack_ini, cli_ini, tools, app_dir>>

tvHistory == <<tv_prev, tv_def, tv_n>>

\* main returns rc: config_free and tv_free
ExitCfg(rc) ==
  /\ cpc' = "exit"
  /\ exit_rc' = rc
  /\ g_ini_targets' = <<>>
  /\ g_ini_overrides' = <<>>
  /\ g_config_default_target' = Null
  /\ g_config_loaded' = FALSE
  /\ tv' = <<>>

\* mutant of ConfigSkipped: --no-config is not honoured
ConfigSkippedNever == FALSE

\* "if (g_no_config) return 0;" at the head of config_auto_load
ConfigSkipped == g_no_config

\* mutant of GenFailed: only a negative result counts as a failure
GenFailedNegative(rc) == rc < 0

\* "if (rc != 0)" after each run_argv_wait of tackfile_prepare_generated_ini
GenFailed(rc) == rc # 0

\* config_auto_load up to the test for tackfile.c: with --no-config it
\* returns at once, otherwise config_reset runs
ConfigAutoLoad ==
  /\ cpc = "start"
  /\ IF ConfigSkipped
     THEN /\ cpc' = "discover"
          /\ UNCHANGED <<g_ini_targets, g_ini_overrides, g_config_loaded,
                         g_config_default_target, g_config_disable_auto_tools>>
     ELSE /\ cpc' = "tackfile"
          /\ g_ini_targets' = <<>>
          /\ g_ini_overrides' = <<>>
          /\ g_config_loaded' = FALSE
          /\ g_config_default_target' = Null
          /\ g_config_disable_auto_tools' = FALSE
  /\ UNCHANGED <<cfgInputs, gen_ini, gen_fresh, tv, exit_rc, sel, built,
                 gen_steps, parsed, tvHistory, driverVars,
                 buildVars, scanVars, execVars, iniVars, histVars, discovered, gen_newer>>

\* mutant of CacheUsable: a cached document is reused however old it is
CacheUsableAnyAge == gen_ini # NoFile

\* "if (file_exists(gen_ini) && file_mtime(gen_ini) >= tf_t) return 0;"
CacheUsable == gen_ini # NoFile /\ gen_fresh

\* tackfile_prepare_generated_ini up to the compiler run: no tackfile.c, a
\* cached document that is not older than tackfile.c, or the generator
\* source is written (fopen can fail)
TackfilePrepare ==
  /\ cpc = "tackfile"
  /\ \/ /\ tackfile = NoTackfile
        /\ cpc' = "ini_layer"
        /\ UNCHANGED <<gen_steps, exit_rc, g_ini_targets, g_ini_overrides,
                       g_config_default_target, g_config_loaded, tv>>
     \/ /\ tackfile # NoTackfile
        /\ CacheUsable
        /\ cpc' = "gen_layer"
        /\ UNCHANGED <<gen_steps, exit_rc, g_ini_targets, g_ini_overrides,
                       g_config_default_target, g_config_loaded, tv>>
     \/ /\ tackfile # NoTackfile
        /\ ~CacheUsable
        /\ \/ /\ cpc' = "gen_compile"
              /\ gen_steps' = gen_steps \cup {"write"}
              /\ UNCHANGED <<exit_rc, g_ini_targets, g_ini_overrides,
                             g_config_default_target, g_config_loaded, tv>>
           \/ /\ gen_steps' = gen_steps \cup {"write_failed"}
              /\ ExitCfg(2)
  /\ UNCHANGED <<cfgInputs, gen_ini, gen_fresh, g_config_disable_auto_tools,
                 sel, built, parsed, tvHistory, driverVars,
                 buildVars, scanVars, execVars, iniVars, histVars, discovered, gen_newer>>

\* the compiler run of tackfile_prepare_generated_ini: run_argv_wait
\* returns rc
GenCompile ==
  /\ cpc = "gen_compile"
  /\ \E rc \in {0, 1} :
       IF GenFailed(rc)
       THEN /\ gen_steps' = gen_steps \cup {"compile", "compile_failed"}
            /\ ExitCfg(2)
       ELSE /\ gen_steps' = gen_steps \cup
                             (IF rc # 0 THEN {"compile", "compile_failed"}
                              ELSE {"compile"})
            /\ cpc' = "gen_run"
            /\ UNCHANGED <<exit_rc, g_ini_targets, g_ini_overrides,
                           g_config_default_target, g_config_loaded, tv>>
  /\ UNCHANGED <<cfgInputs, gen_ini, gen_fresh, g_config_disable_auto_tools,
                 sel, built, parsed, tvHistory, driverVars,
                 buildVars, scanVars, execVars, iniVars, histVars, discovered, gen_newer>>

\* the generator run of tackfile_prepare_generated_ini: exit 0 after the
\* document was written, or a non-zero exit
GenRun ==
  /\ cpc = "gen_run"
  /\ \E rc \in {0, 1} :
       IF GenFailed(rc)
       THEN /\ gen_steps' = gen_steps \cup {"run", "run_failed"}
            /\ ExitCfg(2)
            /\ UNCHANGED <<gen_ini, gen_fresh, gen_newer>>
       ELSE /\ gen_steps' = gen_steps \cup
                             (IF rc # 0 THEN {"run", "run_failed"} ELSE {"run"})
            /\ gen_ini' = IF rc = 0 THEN generated_ini(tackfile) ELSE gen_ini
            /\ gen_fresh' = IF rc = 0 THEN TRUE ELSE gen_fresh
            /\ \E later \in BOOLEAN :
                 gen_newer' = IF rc = 0 THEN later ELSE gen_newer
            /\ cpc' = "gen_layer"
            /\ UNCHANGED <<exit_rc, g_ini_targets, g_ini_overrides,
                           g_config_default_target, g_config_loaded, tv>>
  /\ UNCHANGED <<cfgInputs, g_config_disable_auto_tools, sel, built, parsed,
                 tvHistory, driverVars, buildVars, scanVars, execVars, iniVars, histVars,
                 discovered>>

\* config_add_ini_layer(g_tackfile_generated_ini)
AddGeneratedLayer ==
  /\ cpc = "gen_layer"
  /\ IF gen_ini = NoFile
     THEN /\ ExitCfg(2)
          /\ UNCHANGED <<g_config_disable_auto_tools, parsed>>
     ELSE LET r == ini_load_file(gen_ini, g_ini_targets,
                                 g_config_default_target,
                                 g_config_disable_auto_tools)
          IN  /\ g_ini_targets' = r.targets
              /\ g_ini_overrides' = <<>>
              /\ g_config_default_target' = r.default_target
              /\ g_config_disable_auto_tools' = r.disable_auto_tools
              /\ g_config_loaded' = TRUE
              /\ parsed' = Append(parsed, "generated")
              /\ cpc' = "ini_layer"
              /\ UNCHANGED <<exit_rc, tv>>
  /\ UNCHANGED <<cfgInputs, gen_ini, gen_fresh, sel, built, gen_steps,
                 tvHistory, driverVars,
                 buildVars, scanVars, execVars, iniVars, histVars, discovered, gen_newer>>

\* the rest of config_auto_load: config_add_ini_layer for --config PATH or
\* else for tack.ini when it exists, then ini_materialize_overrides
AddDeclarativeLayer ==
  /\ cpc = "ini_layer"
  /\ LET doc == IF g_config_path_cli THEN cli_ini ELSE tack_ini
         wanted == g_config_path_cli \/ tack_ini # NoFile
     IN  IF wanted /\ doc = NoFile
         THEN /\ ExitCfg(2)
              /\ UNCHANGED <<g_config_disable_auto_tools, parsed>>
         ELSE LET r == IF wanted
                       THEN ini_load_file(doc, g_ini_targets,
                                          g_config_default_target,
                                          g_config_disable_auto_tools)
                       ELSE [targets |-> g_ini_targets,
                             default_target |-> g_config_default_target,
                             disable_auto_tools |-> g_config_disable_auto_tools]
                  m == ini_materialize_overrides(
                         r.targets, IF wanted THEN <<>> ELSE g_ini_overrides)
              IN  /\ g_ini_targets' = m.targets
                  /\ g_ini_overrides' = m.overrides
                  /\ g_config_default_target' = r.default_target
                  /\ g_config_disable_auto_tools' = r.disable_auto_tools
                  /\ g_config_loaded' = (g_config_loaded \/ wanted)
                  /\ parsed' = IF wanted
                               THEN Append(parsed, IF g_config_path_cli
                                                   THEN "cli" ELSE "tack.ini")
                               ELSE parsed
                  /\ cpc' = "discover"
                  /\ UNCHANGED <<exit_rc, tv>>
  /\ UNCHANGED <<cfgInputs, gen_ini, gen_fresh, sel, built, gen_steps,
                 tvHistory, driverVars,
                 buildVars, scanVars, execVars, iniVars, histVars, discovered, gen_newer>>

\* main: discover_targets, apply_tackfile_targets (empty without
\* TACK_USE_TACKFILE) and apply_ini_targets with its own
\* ini_materialize_overrides
BuildGraph ==
  /\ cpc = "discover"
  /\ LET disable == \/ g_no_auto_tools_cli
                    \/ g_config_loaded /\ g_config_disable_auto_tools
         m == IF g_config_loaded
              THEN ini_materialize_overrides(g_ini_targets, g_ini_overrides)
              ELSE [targets |-> g_ini_targets, overrides |-> g_ini_overrides]
     IN  /\ discovered' = discover_targets(app_dir, tools, disable)
         /\ tv' = apply_ini_targets(discover_targets(app_dir, tools, disable),
                                    g_config_loaded, m.targets)
         /\ g_ini_targets' = m.targets
         /\ g_ini_overrides' = m.overrides
  /\ gen_steps' = gen_steps \cup {"discover"}
  /\ cpc' = "command"
  /\ UNCHANGED <<cfgInputs, gen_ini, gen_fresh, g_config_loaded,
                 g_config_default_target, g_config_disable_auto_tools,
                 exit_rc, sel, built, parsed, tvHistory, driverVars,
                 buildVars, scanVars, execVars, iniVars, histVars, gen_newer>>

\* main, "build" with --target key (Null: no --target, the default target):
\* find_target, then build_one_target with the override it resolves, whose
\* result rc is the exit status
Command(key, rc) ==
  /\ cpc = "command"
  /\ LET name == IF key = Null THEN default_target_name(g_config_default_target)
                 ELSE key
         idx == find_target(tv, name)
     IN  /\ sel' = name
         /\ IF idx = 0
            THEN /\ ExitCfg(2)
                 /\ UNCHANGED built
            ELSE /\ built' = Append(built,
                                    [target |-> tv[idx],
                                     ov |-> find_override(g_ini_overrides,
                                                          tv[idx].name)])
                 /\ ExitCfg(rc)
  /\ UNCHANGED <<cfgInputs, gen_ini, gen_fresh, g_config_disable_auto_tools,
                 gen_steps, parsed, tvHistory, driverVars,
                 buildVars, scanVars, execVars, iniVars, histVars, discovered, gen_newer>>

----------------------------------------------------------------------------
(* Configuration: the projects and invocations of the model *)

DirX == <<"x">>
DirDot == <<"a", ".", "b">>
DirUnd == <<"a", "_", "b">>
ToolX == ToolPrefix \o DirX
ToolDot == ToolPrefix \o DirDot
ToolUnd == ToolPrefix \o DirUnd
DemoName == <<"d", "e", "m", "o">>
GhostName == <<"g", "h", "o", "s", "t">>

\* a tackfile.c with overrides only
TfOverrides ==
  [default_target |-> Null, disable_auto_tools |-> FALSE, targets |-> <<>>,
   overrides |->
     << Override(AppName, <<>>, << <<"T", "=", "1">> >>, <<>>, <<>>, <<>>, TRUE),
        Override(ToolX, << <<"i", "n", "c">> >>, << <<"T", "X">>, <<"U">> >>,
                 <<>>, <<>>, << <<"-", "l", "m">> >>, TRUE) >>]

\* a tackfile.c that adds a target, disables one, removes one, names the
\* default target and overrides the new target
TfTargets ==
  [default_target |-> DemoName, disable_auto_tools |-> FALSE,
   targets |->
     << TargetDef(DemoName, <<"d", "e", "m", "o", "s">>, Null, Null, TRUE, FALSE),
        TargetDef(ToolX, Null, Null, Null, FALSE, FALSE),
        TargetDef(ToolDot, Null, Null, Null, FALSE, TRUE) >>,
   overrides |->
     << Override(DemoName, <<>>, << <<"D", "M">> >>, <<>>, <<>>, <<>>, TRUE) >>]

TackfileSamples == {TfOverrides, TfTargets}

\* tack.ini: only defines for app
DocAppDefines ==
  << TargetHdr(AppName), KV("defines", <<" ", "D", "=", "2", ";", " ", "E", "\n">>) >>

\* tack.ini: disables a discovered tool
DocDisableX ==
  << TargetHdr(ToolX), KV("enabled", <<" ", "n", "o", "\n">>) >>

\* tack.ini: project keys, an override with a moved source directory, and an
\* action on a target that does not exist
DocMixed ==
  << ProjectHdr, KV("default_target", <<" ">> \o ToolX \o <<"\n">>),
     TargetHdr(ToolX), KV("core", <<"Y", "e", "s">>),
     KV("src", <<"t", "x">>), KV("defines", <<"M", ";", ";">>),
     TargetHdr(GhostName), KV("enabled", <<"o", "f", "f">>) >>

\* tack.ini: a target of its own and nothing about any other
DocOther ==
  << Line("other", <<>>, "", <<>>), KV("src", <<"z">>),
     TargetHdr(<<"o">>), KV("bin", <<"o">>), KV("libs", <<"-", "l", "z">>) >>

\* tack.ini: an empty file
DocEmpty == <<>>

\* tack.ini: switches tool discovery off
DocNoTools ==
  << ProjectHdr, KV("disable_auto_tools", <<" ", "o", "n", "\n">>) >>

IniSamples ==
  {DocAppDefines, DocDisableX, DocMixed, DocOther, DocEmpty, DocNoTools}

\* the file given with --config
DocCli ==
  << TargetHdr(AppName), KV("libs", <<"-", "l", "z">>), KV("core", <<"n", "o">>),
     TargetHdr(ToolX), KV("id", AppName) >>

ToolDirSamples == {<<>>, <<DirX>>, <<DirDot, DirUnd>>}

\* what --target can name; Null stands for no --target
Selectors ==
  {Null, AppName, ToolX, sanitize_name_to_id(IdCap, ToolX), DemoName, ToolDot,
   <<"o">>}

InitCfgOn(tackfiles, documents) ==
  /\ DriverInit
  /\ cpc = "start"
  /\ g_no_config \in BOOLEAN
  /\ g_config_path_cli \in BOOLEAN
  /\ g_no_auto_tools_cli \in BOOLEAN
  /\ tackfile \in {NoTackfile} \cup tackfiles
  /\ tack_ini \in {NoFile} \cup documents
  /\ cli_ini \in IF g_config_path_cli THEN {NoFile, DocCli} ELSE {NoFile}
  /\ \E cache \in {"none", "newer", "equal", "older"} :
       /\ gen_ini = IF tackfile = NoTackfile \/ cache = "none" THEN NoFile
                    ELSE IF cache \in {"newer", "equal"}
                    THEN generated_ini(tackfile)
                    ELSE DocEmpty
       /\ gen_fresh = (tackfile # NoTackfile /\ cache \in {"newer", "equal"})
       /\ gen_newer = (tackfile # NoTackfile /\ cache = "newer")
  /\ discovered = <<>>
  /\ tools \in ToolDirSamples
  /\ app_dir \in BOOLEAN
  /\ g_ini_targets = <<>>
  /\ g_ini_overrides = <<>>
  /\ g_config_loaded = FALSE
  /\ g_config_default_target = Null
  /\ g_config_disable_auto_tools = FALSE
  /\ tv = <<>>
  /\ exit_rc = -1
  /\ sel = Null
  /\ built = <<>>
  /\ gen_steps = {}
  /\ parsed = <<>>
  /\ tv_prev = <<>>
  /\ tv_def = NoDef
  /\ tv_n = 0

\* main starts in one of the projects of the model
InitCfg == InitCfgOn(TackfileSamples, IniSamples)

NextCfg ==
  \/ ConfigAutoLoad
  \/ TackfilePrepare
  \/ GenCompile
  \/ GenRun
  \/ AddGeneratedLayer
  \/ AddDeclarativeLayer
  \/ BuildGraph
  \/ \E key \in Selectors, rc \in {0, 1} : Command(key, rc)

SpecCfg == InitCfg /\ [][NextCfg]_vars

----------------------------------------------------------------------------
(* The target graph under TargetDefs applied one at a time *)

\* number of TargetDefs applied to one graph
MaxDefs == 2
\* length of the longest target name tried
MaxNameLen == 300

LongName == [i \in 1..MaxNameLen |-> "n"]

\* the TargetDefs tried: every combination of present and absent fields
DefSamples ==
  {TargetDef(n, s, b, i, e, r) :
     n \in {AppName, ToolX, DemoName, LongName},
     s \in {Null, <<"s">>}, b \in {Null, <<"b">>}, i \in {Null, AppName},
     e \in BOOLEAN, r \in BOOLEAN}

InitTv ==
  /\ DriverInit
  /\ cpc = "graph"
  /\ g_no_config = FALSE
  /\ g_config_path_cli = FALSE
  /\ g_no_auto_tools_cli = FALSE
  /\ tackfile = NoTackfile
  /\ tack_ini = NoFile
  /\ cli_ini = NoFile
  /\ gen_ini = NoFile
  /\ gen_fresh = FALSE
  /\ tools \in ToolDirSamples
  /\ app_dir \in BOOLEAN
  /\ g_ini_targets = <<>>
  /\ g_ini_overrides = <<>>
  /\ g_config_loaded = FALSE
  /\ g_config_default_target = Null
  /\ g_config_disable_auto_tools = FALSE
  /\ tv = discover_targets(app_dir, tools, FALSE)
  /\ exit_rc = -1
  /\ sel = Null
  /\ built = <<>>
  /\ gen_steps = {}
  /\ parsed = <<>>
  /\ discovered = tv
  /\ gen_newer = FALSE
  /\ tv_prev = tv
  /\ tv_def = NoDef
  /\ tv_n = 0

\* one call tv_apply_targetdef(&tv, &d)
TvApply(d) ==
  /\ cpc = "graph"
  /\ tv_n < MaxDefs
  /\ tv' = tv_apply_targetdef(tv, d)
  /\ tv_prev' = tv
  /\ tv_def' = d
  /\ tv_n' = tv_n + 1
  /\ UNCHANGED <<cfgInputs, cpc, gen_ini, gen_fresh, g_ini_targets,
                 g_ini_overrides, g_config_loaded, g_config_default_target,
                 g_config_disable_auto_tools, exit_rc, sel, built, gen_steps,
                 parsed, driverVars,
                 buildVars, scanVars, execVars, iniVars, histVars, discovered, gen_newer>>

NextTv == \E d \in DefSamples : TvApply(d)

SpecTv == InitTv /\ [][NextTv]_vars

----------------------------------------------------------------------------
(* Claims about the configuration layers, checked under SpecCfg *)

\* what one document means on its own: its IniTargetCfgs and the overrides
\* made of them
LayerTargets(doc) == ini_load_file(doc, <<>>, Null, FALSE).targets
LayerOverrides(doc) ==
  ini_materialize_overrides(LayerTargets(doc), <<>>).overrides
HasOverride(doc, T) == index_by_name(LayerOverrides(doc), T) # 0
OverrideOf(doc, T) == LayerOverrides(doc)[index_by_name(LayerOverrides(doc), T)]

\* the declarative document of this invocation and which layers were read
DeclDoc == IF g_config_path_cli THEN cli_ini ELSE tack_ini
GenLoaded == parsed # <<>> /\ parsed[1] = "generated"
DeclLoaded == parsed # <<>> /\ parsed[Len(parsed)] \in {"cli", "tack.ini"}
LastDoc == IF DeclLoaded THEN DeclDoc ELSE gen_ini

NamesTried == {AppName, ToolX, ToolDot, ToolUnd, DemoName, GhostName, <<"o">>}

\* the override build_one_target resolves for the target called T
Effective(T) == find_override(g_ini_overrides, T)

\* the keys a document sets in the sections of target T
RECURSIVE doc_keys(_, _, _, _)
doc_keys(doc, i, open, T) ==
  IF i > Len(doc) THEN {}
  ELSE IF doc[i].t = "kv"
  THEN (IF open THEN {doc[i].key} ELSE {}) \cup doc_keys(doc, i + 1, open, T)
  ELSE doc_keys(doc, i + 1, doc[i].t = "target" /\ doc[i].name = T, T)
DocKeys(doc, T) == doc_keys(doc, 1, FALSE, T)

\* C11: when the generated document and the declarative document both
\* override a target and their defines differ, the override resolved for the
\* target, and the one handed to its build, has the declarative document's
\* defines and nothing of the generated document's.
C11_DeclarativeDefinesWin ==
  \A T \in NamesTried :
    (/\ GenLoaded /\ DeclLoaded
     /\ HasOverride(gen_ini, T) /\ HasOverride(DeclDoc, T)
     /\ OverrideOf(gen_ini, T).defines # OverrideOf(DeclDoc, T).defines) =>
      /\ cpc = "command" => Effective(T).defines = OverrideOf(DeclDoc, T).defines
      /\ (cpc = "exit" /\ built # <<>> /\ built[1].target.name = T) =>
           built[1].ov.defines = OverrideOf(DeclDoc, T).defines

\* C11 witness: app is built with tack.ini's defines although tackfile.c
\* gives other ones
C11_Witness ==
  /\ cpc = "exit"
  /\ tackfile = TfOverrides
  /\ tack_ini = DocAppDefines
  /\ parsed = <<"generated", "tack.ini">>
  /\ built # <<>>
  /\ built[1].target.name = AppName
  /\ built[1].ov.defines = << <<"D", "=", "2">>, <<"E">> >>

C13_BootstrapOverrideKept ==
  cpc = "command" =>
    \A T \in NamesTried :
      (/\ GenLoaded /\ HasOverride(gen_ini, T)
       /\ ~(DeclLoaded /\ HasOverride(DeclDoc, T))) =>
        Effective(T) = OverrideOf(gen_ini, T)

\* discovery, then the generated document's TargetDefs, then the
\* declarative document's
LayeredGraph ==
  LET disable == \/ g_no_auto_tools_cli
                 \/ g_config_loaded /\ g_config_disable_auto_tools
      d0 == discover_targets(app_dir, tools, disable)
      d1 == IF GenLoaded THEN apply_targetdefs(d0, LayerTargets(gen_ini), 1)
            ELSE d0
  IN  IF DeclLoaded THEN apply_targetdefs(d1, LayerTargets(DeclDoc), 1) ELSE d1

\* C14: the final graph is the discovery result with the generated
\* document's TargetDefs applied and then the declarative document's.
C14_GraphLayered == cpc = "command" => tv = LayeredGraph

----------------------------------------------------------------------------
(* Claims about one TargetDef applied to a graph, checked under SpecTv *)

\* the places of the graph before the call that hold the def's name
PrevHits == {i \in 1..Len(tv_prev) : tv_prev[i].name = tv_def.name}

\* the last call applied an action def: no src_dir, bin_base or id, no remove
ActionApplied ==
  /\ tv_n > 0
  /\ tv_def.name # Null
  /\ ~tv_def.remove
  /\ tv_def.src_dir = Null /\ tv_def.bin_base = Null /\ tv_def.id = Null

\* the last call applied an upsert def: one of src_dir, bin_base, id is given
UpsertApplied ==
  /\ tv_n > 0
  /\ tv_def.name # Null
  /\ ~tv_def.remove
  /\ tv_def.src_dir # Null \/ tv_def.bin_base # Null \/ tv_def.id # Null

\* C15: an action def with enabled = false applied to a target of the graph
\* changes that target's enabled flag and nothing else in the graph; applied
\* to a name the graph does not have it leaves the graph as it was.
C15_ActionDisableOnly ==
  (ActionApplied /\ ~tv_def.enabled) =>
    IF PrevHits # {}
    THEN \E i \in PrevHits : tv = [tv_prev EXCEPT ![i].enabled = FALSE]
    ELSE tv = tv_prev

\* C15 witness: an enabled target of a graph with other targets was disabled
C15_Witness ==
  /\ ActionApplied /\ ~tv_def.enabled
  /\ Len(tv_prev) >= 2
  /\ \E i \in PrevHits : tv_prev[i].enabled /\ ~tv[i].enabled

\* the first n characters of a name with every character other than
\* alphanumerics, '_' and '-' replaced by '_'
NameAsId(name, n) ==
  [i \in 1..(IF Len(name) < n THEN Len(name) ELSE n) |->
     IF isalnum(name[i]) \/ name[i] \in {"_", "-"} THEN name[i] ELSE "_"]

\* what an upsert def does to the graph, the id of a created target being
\* the first n characters of the replaced name unless the def gives an id
UpsertEffect(n) ==
  IF PrevHits = {}
  THEN /\ Len(tv) = Len(tv_prev) + 1
       /\ SubSeq(tv, 1, Len(tv_prev)) = tv_prev
       /\ tv[Len(tv)].name = tv_def.name
       /\ tv[Len(tv)].id = IF tv_def.id # Null THEN tv_def.id
                           ELSE NameAsId(tv_def.name, n)
  ELSE /\ Len(tv) = Len(tv_prev)
       /\ \A i \in 1..Len(tv) :
            /\ tv[i].name = tv_prev[i].name
            /\ \A f \in {"src_dir", "bin_base", "id"} :
                 tv[i][f] = IF i \in PrevHits /\ tv_def[f] # Null
                            THEN tv_def[f] ELSE tv_prev[i][f]
            /\ i \notin PrevHits => tv[i] = tv_prev[i]

\* C16 as stated: a created target's id is the whole name with the
\* characters replaced.
C16_UpsertStated == UpsertApplied => UpsertEffect(Len(tv_def.name))

\* C16: an upsert def for a name the graph does not have adds exactly one
\* target, whose id is the def's id or else the first 255 characters of the
\* name with every character other than alphanumerics, '_' and '-' replaced
\* by '_'; for a name the graph has, only the src_dir, bin_base and id the
\* def gives change, names stay and no target is added.
C16_UpsertAmended == UpsertApplied => UpsertEffect(IdCap - 1)

\* C16 witness: a target was created whose name has a character to replace
C16_Witness ==
  /\ UpsertApplied
  /\ PrevHits = {}
  /\ tv_def.id = Null
  /\ tv_def.name = ToolX
  /\ tv[Len(tv)].id = <<"t", "o", "o", "l", "_", "x">>

----------------------------------------------------------------------------
(* Claims about lookup, ids and the failure paths, checked under SpecCfg *)

\* the names and ids a lookup is tried with
KeysTried ==
  {AppName, ToolX, ToolDot, ToolUnd, DemoName, GhostName, <<"o">>,
   <<"t", "o", "o", "l", "_", "x">>, <<"t", "o", "o", "l", "_", "a", "_", "b">>}

\* the declarative document that was loaded disables the discovered tool x
DeclDisablesX ==
  /\ DeclLoaded
  /\ DeclDoc = DocDisableX
  /\ tools = <<DirX>>
  /\ ~g_no_auto_tools_cli

\* C17: find_target never returns a disabled target, and no disabled target
\* is built; when the declarative document sets enabled = no for the
\* discovered tool x, the tool is in the graph and disabled, lookup by its
\* name and by its id finds nothing, and a build command naming it builds
\* nothing and exits with status 2.
C17_DisabledNeverFound ==
  /\ \A k \in KeysTried :
       find_target(tv, k) # 0 => tv[find_target(tv, k)].enabled
  /\ \A i \in 1..Len(built) : built[i].target.enabled
  /\ (DeclDisablesX /\ cpc = "command") =>
       /\ \E i \in 1..Len(tv) : tv[i].name = ToolX /\ ~tv[i].enabled
       /\ find_target(tv, ToolX) = 0
       /\ find_target(tv, <<"t", "o", "o", "l", "_", "x">>) = 0
  /\ (DeclDisablesX /\ cpc = "exit" /\ "discover" \in gen_steps
      /\ sel \in {ToolX, <<"t", "o", "o", "l", "_", "x">>}) =>
       built = <<>> /\ exit_rc = 2

\* C17 witness: the build command asked for the disabled tool by its id and
\* ended with status 2 and nothing built
C17_Witness ==
  /\ DeclDisablesX
  /\ cpc = "exit"
  /\ "discover" \in gen_steps
  /\ sel = <<"t", "o", "o", "l", "_", "x">>
  /\ built = <<>>
  /\ exit_rc = 2

\* C18: in the final graph no two enabled targets have the same id.
C18_EnabledIdsDistinct ==
  cpc = "command" =>
    \A i, j \in 1..Len(tv) :
      (i # j /\ tv[i].enabled /\ tv[j].enabled) => tv[i].id # tv[j].id


\* compiling or running the generator failed in this invocation
GeneratorFailed == gen_steps \cap {"compile_failed", "run_failed"} # {}

\* C19: once compiling or running the generator has failed, the invocation
\* has ended with a non-zero status; discovery never ran, no target was
\* built and no graph or override was left to build from.
C19_GeneratorFailureExits ==
  GeneratorFailed =>
    /\ cpc = "exit"
    /\ exit_rc # 0
    /\ "discover" \notin gen_steps
    /\ built = <<>>
    /\ tv = <<>>
    /\ ~g_no_config /\ tackfile # NoTackfile

\* C19 witness: the generator ran and failed although an older generated
\* document was there to fall back on
C19_Witness ==
  /\ "run_failed" \in gen_steps
  /\ gen_ini # NoFile
  /\ cpc = "exit"
  /\ exit_rc = 2

\* the built-in override of a name, or none
BuiltinOnly(T) ==
  IF \E i \in 1..Len(BuiltinOverrides) : BuiltinOverrides[i].name = T
  THEN BuiltinOverrides[CHOOSE i \in 1..Len(BuiltinOverrides) :
                          BuiltinOverrides[i].name = T]
  ELSE NoOverride

\* what discovery alone gives for this project tree and --no-auto-tools
DiscoveredOnly == discover_targets(app_dir, tools, g_no_auto_tools_cli)

\* C20: with --no-config nothing of the generator is written, compiled or
\* run and no document is parsed, whatever tackfile.c, tack.ini and the
\* --config file are; the graph is the discovery result, every override is
\* the built-in one, the default target is app, and what the build command
\* builds and returns follows from the discovery result and the built-in
\* overrides alone.
C20_NoConfigIgnoresFiles ==
  g_no_config =>
    /\ gen_steps \subseteq {"discover"}
    /\ parsed = <<>>
    /\ ~g_config_loaded
    /\ cpc = "command" =>
         /\ tv = DiscoveredOnly
         /\ \A T \in NamesTried : Effective(T) = BuiltinOnly(T)
         /\ default_target_name(g_config_default_target) = AppName
    /\ (cpc = "exit" /\ "discover" \in gen_steps) =>
         LET hits == {i \in 1..Len(DiscoveredOnly) :
                        /\ DiscoveredOnly[i].enabled
                        /\ sel \in {DiscoveredOnly[i].name, DiscoveredOnly[i].id}}
         IN  IF hits = {} THEN built = <<>> /\ exit_rc = 2
             ELSE /\ Len(built) = 1
                  /\ \E i \in hits :
                       /\ built[1].target = DiscoveredOnly[i]
                       /\ built[1].ov = BuiltinOnly(DiscoveredOnly[i].name)

\* C20 witness: tackfile.c and tack.ini are there, the --config file is
\* missing, and the tool is built without any override
C20_Witness ==
  /\ g_no_config
  /\ tackfile = TfTargets
  /\ tack_ini = DocMixed
  /\ g_config_path_cli /\ cli_ini = NoFile
  /\ cpc = "exit"
  /\ built # <<>>
  /\ built[1].target.name = ToolX
  /\ built[1].ov = NoOverride

----------------------------------------------------------------------------
(* More claims about the job scheduler, checked under SpecSched *)

\* a spawn of this batch failed: the batch failed without a wait that
\* returned non-zero
SpawnFailed ==
  cs_failed /\ \A i \in 1..Len(waitOrder) : proc[waitOrder[i]].code = 0

\* the sources whose object needed a rebuild when the batch started: those
\* that were compiled and those never reached, whose object nobody wrote
StaleAtStart ==
  compSpawned \cup
    {s \in Range(cs_srcs) \ compSpawned :
       obj_needs_rebuild(ObjPathOf(cs_objd, s), s, DepPathOf(cs_depd, s), force)}

\* the compile jobs whose exit code is non-zero are those of F, as far as
\* the processes of this batch have shown their exit code
ExitCodesAre(F) ==
  \A s \in Range(cs_srcs) :
    proc[s].st \in {"exited", "waited"} => (proc[s].code # 0 <=> s \in F)

\* C21: with no spawn failure, for every assignment of exit codes to the
\* compile jobs the result of compile_sources is success exactly when no
\* stale source has a failing job, whatever the job count (1 or more); on
\* success the sources compiled are the stale ones and the object list is
\* the object of every source in source order.
C21_ParallelEquivalence ==
  (pc = "done" /\ ~SpawnFailed) =>
    \A F \in SUBSET Range(cs_srcs) :
      ExitCodesAre(F) =>
        /\ (cs_rc = 0) <=> (StaleAtStart \cap F = {})
        /\ cs_rc = 0 =>
             /\ compSpawned = StaleAtStart
             /\ out_objs = [i \in 1..Len(cs_srcs) |->
                              ObjPathOf(cs_objd, cs_srcs[i])]

\* C21 witness: a batch under -j 3 succeeded, three sources compiled and one
\* up-to-date source skipped
C21_Witness ==
  /\ pc = "done"
  /\ cs_rc = 0
  /\ cs_jobs = MaxJobs
  /\ Len(cs_srcs) = MaxSrcs
  /\ Cardinality(compSpawned) = MaxSrcs - 1

\* C29: in a parallel batch, the step in which a wait returns non-zero or a
\* spawn fails is the step in which compile_sources returns failure; the
\* processes still running are neither waited nor ended by it, and after
\* the return no process is waited any more, so they run on and end by
\* themselves.
C29_FailureLeavesOrphans ==
  /\ [][(cs_jobs > 1 /\ cs_failed' /\ ~cs_failed) =>
          /\ pc' = "done" /\ cs_rc' = 1
          /\ \A s \in AllSrcs : proc[s].st = "run" => proc'[s] = proc[s]]_vars
  /\ [][(cs_jobs > 1 /\ pc = "done") =>
          /\ waitOrder' = waitOrder
          /\ \A s \in AllSrcs : proc'[s].st # "waited" \/ proc[s].st = "waited"]_vars

\* C29 witness: the batch has returned failure, one process it left behind
\* has written its object since and another is still running
C29_Witness ==
  /\ pc = "done"
  /\ cs_rc = 1
  /\ cs_jobs > 1
  /\ lateWrites # {}
  /\ \E s \in AllSrcs : proc[s].st = "run"

----------------------------------------------------------------------------
(* Claims about the core and the phases of a build, checked under SpecCore *)

\* a build_one_target is under way or has just returned
InBuild == pc # "idle" /\ phases # <<>>

\* the objects of the core sources that exist, in scan order
CoreObjList ==
  [i \in 1..Len(ScanDir(CoreSrcs)) |-> ObjPathOf(CoreObjd, ScanDir(CoreSrcs)[i])]

\* C25 as stated: after a complete successful build of one target with the
\* core, a build of the other target with the core spawns no core compile,
\* and what it hands to the linker is its own objects followed by the core
\* objects the first build handed to the linker (when it linked at all); the
\* linker never gets core objects alone.
C25_CoreSharedStated ==
  /\ (InBuild /\ use_core /\ prevBuild.ok /\ prevBuild.use_core
      /\ prevBuild.tgt # tgt) =>
       /\ compSpawned \cap Range(CoreSrcs) = {}
       /\ link_all # <<>> =>
            /\ link_all = objs \o prevBuild.core_objs
            /\ prevBuild.core_objs # <<>>
            /\ prevBuild.link_all # <<>> =>
                 \E k \in 1..Len(prevBuild.link_all) :
                   SubSeq(prevBuild.link_all, k, Len(prevBuild.link_all))
                     = prevBuild.core_objs
  /\ link_all # <<>> => objs # <<>> /\ IsPrefix(objs, link_all)

\* C25: the same for a second build without --rebuild.
C25_CoreSharedAmended ==
  /\ (InBuild /\ use_core /\ ~force /\ prevBuild.ok /\ prevBuild.use_core
      /\ prevBuild.tgt # tgt) =>
       /\ compSpawned \cap Range(CoreSrcs) = {}
       /\ link_all # <<>> =>
            /\ link_all = objs \o prevBuild.core_objs
            /\ prevBuild.core_objs # <<>>
            /\ prevBuild.link_all # <<>> =>
                 \E k \in 1..Len(prevBuild.link_all) :
                   SubSeq(prevBuild.link_all, k, Len(prevBuild.link_all))
                     = prevBuild.core_objs
  /\ link_all # <<>> => objs # <<>> /\ IsPrefix(objs, link_all)

\* C25 witness: the tool is linked with the core object the build of app
\* left behind, and only the tool's own source was compiled
C25_Witness ==
  /\ pc = "link_wait"
  /\ tgt = OtherTarget
  /\ use_core /\ ~force
  /\ prevBuild.ok /\ prevBuild.use_core /\ prevBuild.tgt = MainTarget
  /\ compSpawned = Range(OtherSrcs)
  /\ link_all = <<ObjPathOf(OtherObjd, <<"e">>), ObjPathOf(CoreObjd, <<"c">>)>>

\* C26: use_core of a build is the use_core of the resolved override (false
\* without one) and false under --no-core; the core build is entered, core
\* sources are compiled and core objects are handed to the linker exactly
\* when use_core is true.
C26_EffectiveUseCore ==
  InBuild =>
    /\ use_core = (ov_use_core /\ ~no_core)
    /\ "compile" \in Range(phases) => ("core" \in Range(phases) <=> use_core)
    /\ ~use_core => /\ compSpawned \cap Range(CoreSrcs) = {}
                    /\ core_objs = <<>>
    /\ (use_core /\ "compile" \in Range(phases)) =>
         /\ core_objs = CoreObjList
         /\ force => Range(ScanDir(CoreSrcs)) \subseteq compSpawned
    /\ link_all # <<>> =>
         link_all = objs \o (IF use_core THEN CoreObjList ELSE <<>>)

\* C26 witness: the override asks for the core, --no-core is given, and the
\* linker gets the target's objects only
C26_Witness ==
  /\ pc = "link_wait"
  /\ ov_use_core /\ no_core
  /\ ~use_core
  /\ link_all = objs
  /\ Len(objs) = Len(TargetSrcs)
  /\ file_exists(<<"c">>)

\* the place of a phase in the order the specification gives
PhaseRank(ph) ==
  CASE ph = "resolve" -> 1
    [] ph = "core" -> 2
    [] ph = "scan" -> 3
    [] ph = "compile" -> 4
    [] ph = "decide" -> 5
    [] ph = "link" -> 6

\* C28: the phases of a build come in the order resolve-override,
\* build-core, scan-target-sources, compile, decide-link, link, and no core
\* compile process is in flight together with a target compile process.
C28_PhaseOrder ==
  /\ \A i, j \in 1..Len(phases) :
       i < j => PhaseRank(phases[i]) < PhaseRank(phases[j])
  /\ ~(\E s \in Range(CoreSrcs), u \in AllSrcs \ Range(CoreSrcs) :
         proc[s].st = "run" /\ proc[u].st = "run")

----------------------------------------------------------------------------
(* Claims about removal from the target graph, checked under SpecTv *)

\* the graph without the targets at the given positions
Without(v, hits) ==
  LET F[i \in 0..Len(v)] ==
        IF i = 0 THEN <<>>
        ELSE IF i \in hits THEN F[i - 1] ELSE Append(F[i - 1], v[i])
  IN  F[Len(v)]

\* C30: a TargetDef with remove set deletes the target with that name if
\* there is one and changes nothing otherwise, whatever else the def
\* carries; a def without remove never makes the graph shorter, keeps every
\* target that was there, and a disabled target stays in the graph;
\* discovery yields the primary target and nothing less.
C30_RemoveWins ==
  /\ Len(discovered) >= 1
  /\ (tv_n > 0 /\ tv_def.remove) =>
       /\ tv = Without(tv_prev, PrevHits)
       /\ PrevHits = {} => tv = tv_prev
       /\ PrevHits # {} => Len(tv) = Len(tv_prev) - 1
       /\ \A i \in 1..Len(tv) : tv[i].name # tv_def.name
  /\ (tv_n > 0 /\ ~tv_def.remove) =>
       /\ Len(tv) >= Len(tv_prev)
       /\ \A i \in 1..Len(tv_prev) : tv[i].name = tv_prev[i].name
       /\ (~tv_def.enabled /\ PrevHits # {}) =>
            \E i \in 1..Len(tv) :
              tv[i].name = tv_def.name /\ ~tv[i].enabled

\* C30 witness: a def with remove set that also carries a source directory,
\* an id and enabled deletes the discovered tool and creates nothing
C30_Witness ==
  /\ tv_n > 0
  /\ tv_def.remove /\ tv_def.enabled
  /\ tv_def.src_dir # Null /\ tv_def.id # Null
  /\ tv_def.name = ToolX
  /\ PrevHits # {}
  /\ Len(tv) = Len(tv_prev) - 1
  /\ \A i \in 1..Len(tv) : tv[i].name # ToolX

----------------------------------------------------------------------------
(* Claims about discovery and the generator cache, checked under SpecCfg *)

\* tool discovery is switched off by --no-auto-tools or by a loaded
\* configuration
ToolsDisabled ==
  g_no_auto_tools_cli \/ (g_config_loaded /\ g_config_disable_auto_tools)

\* C23: discovery yields exactly one target named app, first and enabled,
\* over src/app if that directory exists and over src otherwise; unless
\* tool discovery is disabled it yields one more enabled target tool:<d> for
\* each subdirectory d of tools/, over tools/<d>; with no subdirectory or
\* with discovery disabled the discovered graph is the one enabled target.
\* (Read where main has the graph and the configuration is still loaded.)
C23_Discovery ==
  cpc = "command" =>
    /\ discovered[1].name = AppName
    /\ discovered[1].src_dir = (IF app_dir THEN AppDir ELSE SrcDir)
    /\ discovered[1].enabled
    /\ \A i \in 2..Len(discovered) : discovered[i].name # AppName
    /\ ~ToolsDisabled =>
         /\ Len(discovered) = 1 + Len(tools)
         /\ \A i \in 1..Len(tools) :
              /\ discovered[i + 1].name = ToolPrefix \o tools[i]
              /\ discovered[i + 1].src_dir = path_join(ToolsDir, tools[i])
              /\ discovered[i + 1].enabled
    /\ (ToolsDisabled \/ tools = <<>>) =>
         /\ Len(discovered) = 1
         /\ Cardinality({i \in 1..Len(discovered) : discovered[i].enabled}) = 1

\* C23 witness: tools/x exists, --no-auto-tools is not given, tack.ini says
\* disable_auto_tools = on, and discovery yields app alone
C23_Witness ==
  /\ cpc = "command"
  /\ g_config_loaded /\ g_config_disable_auto_tools
  /\ tools = <<DirX>>
  /\ ~g_no_auto_tools_cli
  /\ ~g_no_config
  /\ tack_ini = DocNoTools
  /\ tackfile = NoTackfile
  /\ Len(discovered) = 1
  /\ discovered[1].name = AppName

\* the steps that regenerate the cached document
GenWork == {"write", "compile", "run"}

\* C27: with tackfile.c present and configuration enabled, a cached
\* document newer than tackfile.c is used as it is and the generator is not
\* written, compiled or run; a missing or older cached document makes the
\* generator be written first, and the generated document is parsed only
\* from an untouched usable cache or after the generator was written,
\* compiled and run without a failure.
C27_GeneratorCache ==
  /\ [][(cpc = "tackfile" /\ tackfile # NoTackfile) =>
          /\ (gen_ini # NoFile /\ gen_newer) =>
               /\ cpc' = "gen_layer"
               /\ gen_steps' = gen_steps
               /\ gen_steps \cap GenWork = {}
          /\ (gen_ini = NoFile \/ ~gen_fresh) =>
               /\ gen_steps' \cap {"write", "write_failed"} # {}
               /\ cpc' # "gen_layer"]_vars
  /\ []("generated" \in Range(parsed) =>
          /\ gen_ini = generated_ini(tackfile)
          /\ \/ gen_steps \cap GenWork = {} /\ gen_fresh
             \/ /\ GenWork \subseteq gen_steps
                /\ gen_steps \cap {"write_failed", "compile_failed",
                                   "run_failed"} = {})

\* C27 witness: the document of a newer cache was parsed and nothing of the
\* generator was written, compiled or run
C27_Witness ==
  /\ "generated" \in Range(parsed)
  /\ tackfile # NoTackfile
  /\ gen_newer
  /\ gen_steps \cap GenWork = {}

----------------------------------------------------------------------------
(* The source scans of build_one_target and build_core on their own: every *)
(* project tree made of a few files, two target names, two source          *)
(* directories, both platforms                                             *)

\* the legacy main source in src: src/main.c
FileMain == <<"s", "r", "c", "/", "m", "a", "i", "n", ".", "c">>
\* a source of the shared core: src/core/c.c
FileCore == <<"s", "r", "c", "/", "c", "o", "r", "e", "/", "c", ".", "c">>
\* a source in src/app: src/app/a.c
FileApp == <<"s", "r", "c", "/", "a", "p", "p", "/", "a", ".", "c">>
\* a source in a directory named core further down: src/x/core/k.c
FileNested == <<"s", "r", "c", "/", "x", "/", "c", "o", "r", "e", "/", "k", ".", "c">>
\* a source in a directory named build: src/build/g.c
FileBuild == <<"s", "r", "c", "/", "b", "u", "i", "l", "d", "/", "g", ".", "c">>
\* a header: src/n.h
FileHdr == <<"s", "r", "c", "/", "n", ".", "h">>
\* g_core_dir
CoreDir == <<"s", "r", "c", "/", "c", "o", "r", "e">>
\* the name skipped in the scan of app, and the name skipped with it
SkipCore == <<"c", "o", "r", "e">>
SkipBuild == <<"b", "u", "i", "l", "d">>
\* the suffix of a source
SuffixC == <<".", "c">>

\* the files a project tree is made of
TreeFiles == {FileMain, FileCore, FileApp, FileNested, FileBuild, FileHdr}

\* the order in which readdir gives the entries of every directory
TreeOrder ==
  << FileMain, CoreDir, FileCore, AppDir, FileApp, <<"s", "r", "c", "/", "x">>, <<"s", "r", "c", "/", "x", "/", "c", "o", "r", "e">>,
     FileNested, <<"s", "r", "c", "/", "b", "u", "i", "l", "d">>, FileBuild, FileHdr >>

\* the position of the last '/' of a path, 0 if there is none
LastSlash(p) ==
  IF \E i \in 1..Len(p) : p[i] = "/"
  THEN CHOOSE i \in 1..Len(p) :
         p[i] = "/" /\ \A j \in (i + 1)..Len(p) : p[j] # "/"
  ELSE 0

\* the directory an entry is in, and d_name: its name in that directory
ParentOf(p) == SubSeq(p, 1, LastSlash(p) - 1)
BaseOf(p) == SubSeq(p, LastSlash(p) + 1, Len(p))

\* p lies below the directory d
IsUnder(p, d) ==
  Len(p) > Len(d) + 1 /\ SubSeq(p, 1, Len(d)) = d /\ p[Len(d) + 1] = "/"

\* the directories of a tree: whatever lies above one of its files
DirsOf(files) ==
  UNION {{SubSeq(f, 1, k - 1) : k \in {i \in 1..Len(f) : f[i] = "/"}} :
           f \in files}

\* is_dir_path
is_dir_path(files, p) == p \in DirsOf(files)

\* ends_with
ends_with(s, suffix) ==
  Len(suffix) <= Len(s)
  /\ SubSeq(s, Len(s) - Len(suffix) + 1, Len(s)) = suffix

\* opendir and readdir: the entries of dir in readdir order, none when dir
\* cannot be opened
ReadDir(files, dir) ==
  SelectSeq(TreeOrder,
            LAMBDA e : e \in files \cup DirsOf(files) /\ ParentOf(e) = dir)

\* "continue" at the head of the loop of scan_dir_recursive_suffix_skip:
\* POSIX drops every entry named skip_dirname and every entry named build;
\* Windows drops directories of these names, and only when skip_dirname is
\* given. skip is Null for the null pointer.
ScanSkips(files, e, skip, win32) ==
  IF win32
  THEN skip # Null /\ is_dir_path(files, e)
       /\ (BaseOf(e) = skip \/ BaseOf(e) = SkipBuild)
  ELSE (skip # Null /\ BaseOf(e) = skip) \/ BaseOf(e) = SkipBuild

\* the skip_dirname build_one_target scans with
SkipFor(files, name, src_dir) ==
  IF name = AppName /\ src_dir = SrcDir /\ is_dir_path(files, CoreDir)
  THEN SkipCore ELSE Null

\* one entry of the loop of scan_dir_recursive_suffix_skip: skipped, a
\* directory scanned at once (its entries come before the rest), a source
\* pushed, or another file passed by. out is the list pushed to.
ScanOne(files, todo, out, skip, win32) ==
  LET e == Head(todo)
  IN  IF ScanSkips(files, e, skip, win32)
      THEN [todo |-> Tail(todo), out |-> out]
      ELSE IF is_dir_path(files, e)
      THEN [todo |-> ReadDir(files, e) \o Tail(todo), out |-> out]
      ELSE IF ends_with(BaseOf(e), SuffixC)
      THEN [todo |-> Tail(todo), out |-> Append(out, e)]
      ELSE [todo |-> Tail(todo), out |-> out]

\* build_one_target is entered for a target with this name and source
\* directory and opens the source directory
ScanBegin(name, src_dir, files, win32, uc) ==
  /\ scan_pc = "off"
  /\ scan_in' = [name |-> name, src_dir |-> src_dir, files |-> files,
                 win32 |-> win32, use_core |-> uc]
  /\ scan_out' = [NoScanOut EXCEPT !.todo = ReadDir(files, src_dir)]
  /\ scan_pc' = "target"
  /\ UNCHANGED <<driverVars, buildVars, cfgVars, execVars, iniVars, histVars>>

\* one directory entry of the scan of the target's sources
ScanEntry ==
  /\ scan_pc = "target"
  /\ scan_out.todo # <<>>
  /\ LET r == ScanOne(scan_in.files, scan_out.todo, scan_out.srcs,
                      SkipFor(scan_in.files, scan_in.name, scan_in.src_dir),
                      scan_in.win32)
     IN  scan_out' = [scan_out EXCEPT !.todo = r.todo, !.srcs = r.out]
  /\ UNCHANGED <<scan_pc, scan_in, driverVars, buildVars, cfgVars,
                 execVars, iniVars, histVars>>

\* the scan of the target's sources is over: the legacy src/main.c is pushed
\* for app over src/app, a target without sources returns 1, and with
\* use_core build_core opens src/core if there is one
ScanTargetDone ==
  /\ scan_pc = "target"
  /\ scan_out.todo = <<>>
  /\ LET legacy == scan_in.name = AppName /\ scan_in.src_dir = AppDir
                   /\ FileMain \in scan_in.files
         all == IF legacy THEN Append(scan_out.srcs, FileMain)
                ELSE scan_out.srcs
     IN  /\ scan_out' =
              [scan_out EXCEPT
                 !.srcs = all,
                 !.todo = IF all # <<>> /\ scan_in.use_core
                             /\ is_dir_path(scan_in.files, CoreDir)
                          THEN ReadDir(scan_in.files, CoreDir) ELSE <<>>]
         /\ scan_pc' = IF all = <<>> THEN "nosrc"
                       ELSE IF scan_in.use_core
                               /\ is_dir_path(scan_in.files, CoreDir)
                       THEN "core" ELSE "done"
  /\ UNCHANGED <<scan_in, driverVars, buildVars, cfgVars,
                 execVars, iniVars, histVars>>

\* one directory entry of the scan of build_core, which names no directory
\* to skip
CoreEntry ==
  /\ scan_pc = "core"
  /\ scan_out.todo # <<>>
  /\ LET r == ScanOne(scan_in.files, scan_out.todo, scan_out.core_srcs, Null,
                      scan_in.win32)
     IN  scan_out' = [scan_out EXCEPT !.todo = r.todo, !.core_srcs = r.out]
  /\ UNCHANGED <<scan_pc, scan_in, driverVars, buildVars, cfgVars,
                 execVars, iniVars, histVars>>

\* the scan of build_core is over: both lists go to compile_sources
CoreScanDone ==
  /\ scan_pc = "core"
  /\ scan_out.todo = <<>>
  /\ scan_pc' = "done"
  /\ UNCHANGED <<scan_in, scan_out, driverVars, buildVars, cfgVars,
                 execVars, iniVars, histVars>>

\* the names and source directories of the targets scanned
ScanNames == {AppName, DemoName}
ScanSrcDirs == {SrcDir, AppDir}

NextScan ==
  \/ \E name \in ScanNames, src_dir \in ScanSrcDirs,
        files \in SUBSET TreeFiles, win32 \in BOOLEAN, uc \in BOOLEAN :
       ScanBegin(name, src_dir, files, win32, uc)
  \/ ScanEntry
  \/ ScanTargetDone
  \/ CoreEntry
  \/ CoreScanDone

SpecScan == Init /\ [][NextScan]_vars

----------------------------------------------------------------------------
(* Claims about the source scan, checked under SpecScan *)

\* C24: for a target whose source directory is src, whatever its name, the
\* scan of its sources leaves out src/core, and no source is in the
\* target's list and in the core's list of the same build.
C24_CoreNotCompiledTwice ==
  (scan_pc \in {"core", "done"} /\ scan_in.src_dir = SrcDir) =>
    /\ \A i \in 1..Len(scan_out.srcs) : ~IsUnder(scan_out.srcs[i], CoreDir)
    /\ Range(scan_out.srcs) \cap Range(scan_out.core_srcs) = {}

----------------------------------------------------------------------------
(* The process executor on its own: both platforms, both ways of calling   *)
(* it, a program that cannot be started or ends in one of several ways     *)

\* _exit(127) of the child whose execvp failed
ExitNotFound == 127
\* the exit statuses a program is let end with
ExitCodes == {0, 1, 2, ExitNotFound}
\* the program is ended by a signal (POSIX only)
KilledBySignal == -2

\* what is asked of the executor: the platform, the caller, whether a
\* process can be created (fork), whether argv[0] can be executed, and how
\* the program ends once it runs
ExecInputs ==
  {i \in [win32 : BOOLEAN, caller : {"run_argv_wait", "spawn_wait"},
          fork_ok : BOOLEAN, found : BOOLEAN,
          ends : ExitCodes \cup {KilledBySignal}] :
     i.win32 => i.ends # KilledBySignal}

\* the program named by argv[0] was started
Started(in) == in.fork_ok /\ in.found

\* proc_spawn_nowait: _spawnvp gives -1 when the process cannot be created
\* or the program cannot be executed; fork gives a negative pid only when
\* the process cannot be created
proc_spawn_nowait(in) ==
  IF in.win32
  THEN IF in.fork_ok /\ in.found THEN 0 ELSE 1
  ELSE IF in.fork_ok THEN 0 ELSE 1

\* how the process proc_spawn_nowait created ends: on POSIX the child whose
\* execvp failed calls _exit(127)
ChildEnd(in) ==
  IF ~in.win32 /\ ~in.found THEN [st |-> "exited", code |-> ExitNotFound]
  ELSE IF in.ends = KilledBySignal THEN [st |-> "killed", code |-> 0]
  ELSE [st |-> "exited", code |-> in.ends]

\* proc_wait: the exit status, 1 for a process that did not exit
WaitStatus(child) == IF child.st = "exited" THEN proc_wait(child) ELSE 1

\* everything the executor returns for one request
ExecResult(in) ==
  LET src == proc_spawn_nowait(in)
      wrc == IF src # 0 THEN -1 ELSE WaitStatus(ChildEnd(in))
  IN  [spawn_rc |-> src,
       child |-> IF src # 0 THEN NoExecOut.child ELSE ChildEnd(in),
       wait_rc |-> wrc,
       ret |-> IF in.caller # "run_argv_wait" THEN -1
               ELSE IF src # 0 THEN 1 ELSE wrc]

\* the executor is called
ExecBegin(in) ==
  /\ exec_pc = "off"
  /\ exec_in' = in
  /\ exec_out' = NoExecOut
  /\ exec_pc' = "spawn"
  /\ UNCHANGED <<driverVars, buildVars, cfgVars, scanVars, iniVars, histVars>>

\* proc_spawn_nowait returns; run_argv_wait returns 1 when it failed
ProcSpawn ==
  /\ exec_pc = "spawn"
  /\ LET src == proc_spawn_nowait(exec_in)
     IN  /\ exec_out' =
              [exec_out EXCEPT
                 !.spawn_rc = src,
                 !.child = IF src = 0 THEN [st |-> "run", code |-> 0] ELSE @,
                 !.ret = IF src # 0 /\ exec_in.caller = "run_argv_wait"
                         THEN 1 ELSE @]
         /\ exec_pc' = IF src = 0 THEN "child" ELSE "returned"
  /\ UNCHANGED <<exec_in, driverVars, buildVars, cfgVars, scanVars, iniVars, histVars>>

\* the created process ends
ChildEnds ==
  /\ exec_pc = "child"
  /\ exec_out' = [exec_out EXCEPT !.child = ChildEnd(exec_in)]
  /\ exec_pc' = "wait"
  /\ UNCHANGED <<exec_in, driverVars, buildVars, cfgVars, scanVars, iniVars, histVars>>

\* proc_wait returns, and run_argv_wait with its value
ProcWait ==
  /\ exec_pc = "wait"
  /\ exec_out' =
       [exec_out EXCEPT
          !.wait_rc = WaitStatus(exec_out.child),
          !.ret = IF exec_in.caller = "run_argv_wait"
                  THEN WaitStatus(exec_out.child) ELSE @]
  /\ exec_pc' = "returned"
  /\ UNCHANGED <<exec_in, driverVars, buildVars, cfgVars, scanVars, iniVars, histVars>>

NextExec ==
  \/ \E in \in ExecInputs : ExecBegin(in)
  \/ ProcSpawn
  \/ ChildEnds
  \/ ProcWait

SpecExec == Init /\ [][NextExec]_vars

----------------------------------------------------------------------------
(* Claims about the process executor, checked under SpecExec *)

\* what the caller has in hand after the call
Observed(in, out) ==
  IF in.caller = "run_argv_wait" THEN <<out.ret>>
  ELSE <<out.spawn_rc, out.wait_rc>>

\* C22: when the program could not be started, what the caller gets from
\* run_argv_wait, or from proc_spawn_nowait followed by proc_wait, differs
\* from what it gets for every program that was started and exited with a
\* non-zero status.
C22_SpawnFailureDistinct ==
  (exec_pc = "returned" /\ ~Started(exec_in)) =>
    \A o \in ExecInputs :
      (/\ o.win32 = exec_in.win32
       /\ o.caller = exec_in.caller
       /\ Started(o)
       /\ o.ends \in ExitCodes \ {0}) =>
        Observed(o, ExecResult(o)) # Observed(exec_in, exec_out)

----------------------------------------------------------------------------
(* Claims about the depfile grammar, checked under SpecDep *)

\* white space of the grammar
Blank == {" ", "\t", "\n", "\r"}

\* the characters a backslash makes vanish together with itself: the
\* newline, and the carriage return as well when cr is set
Continuation(cr) == IF cr THEN {"\n", "\r"} ELSE {"\n"}

RECURSIVE GrammarItems(_, _, _)
\* the text from pos on as the grammar reads it: "ch" a character of a
\* token (escaped or not), "sp" unescaped white space, "colon" an unescaped
\* colon; a backslash with nothing after it ends the text
GrammarItems(text, pos, cr) ==
  IF pos > Len(text) THEN <<>>
  ELSE IF text[pos] = "\\"
  THEN IF pos = Len(text) THEN <<>>
       ELSE IF text[pos + 1] \in Continuation(cr)
       THEN GrammarItems(text, pos + 2, cr)
       ELSE <<[k |-> "ch", c |-> text[pos + 1]]>>
            \o GrammarItems(text, pos + 2, cr)
  ELSE <<[k |-> IF text[pos] \in Blank THEN "sp"
                ELSE IF text[pos] = ":" THEN "colon" ELSE "ch",
          c |-> text[pos]]>> \o GrammarItems(text, pos + 1, cr)

\* the dependency tokens of the grammar: the maximal runs of token
\* characters after the first unescaped colon, a later colon being a token
\* character
GrammarTokens(text, cr) ==
  LET items == GrammarItems(text, 1, cr)
      n == Len(items)
      colons == {i \in 1..n : items[i].k = "colon"}
      first == IF colons = {} THEN n + 1
               ELSE CHOOSE i \in colons : \A j \in colons : i <= j
      Sep(i) == i <= first \/ i > n \/ items[i].k = "sp"
      runs == {w \in (1..n) \X (1..n) :
                 /\ w[1] <= w[2]
                 /\ \A m \in w[1]..w[2] : ~Sep(m)
                 /\ Sep(w[1] - 1)
                 /\ Sep(w[2] + 1)}
  IN  {[m \in 1..(w[2] - w[1] + 1) |-> items[w[1] + m - 1].c] : w \in runs}

\* the depfile is what decides the call: no force, the object is there and
\* not older than the source, the depfile is there
DepfileDecides ==
  /\ pc = "onr_done"
  /\ ~force
  /\ file_exists(OnrObj) /\ file_exists(OnrDep)
  /\ file_exists(OnrSrc) /\ file_mtime(OnrSrc) <= file_mtime(OnrObj)

\* the tokens checked (all shorter than TokCap here) are those of the
\* grammar, and the call says "rebuild"
\* exactly when one of them is missing or newer than the object
ChecksGrammar(cr) ==
  pc = "onr_done" =>
    /\ Range(DepChecked(depText[OnrDep], 1, <<>>, FALSE))
         = GrammarTokens(depText[OnrDep], cr)
    /\ DepfileDecides =>
         ((onr_ret = 1) <=>
            \E tok \in GrammarTokens(depText[OnrDep], cr) :
              ~file_exists(tok) \/ file_mtime(tok) > file_mtime(OnrObj))

\* C31 as stated: the depfile parser checks exactly the dependency tokens of
\* the grammar - separated by unescaped white space, backslash-newline
\* dropped inside a token, backslash and any other character giving that
\* character, the first unescaped colon starting the dependencies, later
\* colons being token characters, nothing before the first colon checked.
C31_GrammarStated == ChecksGrammar(FALSE)

\* C31: the same with backslash-carriage-return dropped like
\* backslash-newline, for tokens that fit the token buffer.
C31_GrammarAmended == ChecksGrammar(TRUE)

\* C31 witness: "Oa: h\<CR><LF>b\:<LF>" with h and b up to date; the tokens
\* checked are h and b: and the call says "rebuild" because b: is missing
C31_Witness ==
  /\ DepfileDecides
  /\ depText[OnrDep] =
       <<"O", "a", ":", " ", "h", "\\", "\r", "\n", "b", "\\", ":", "\n">>
  /\ DepChecked(depText[OnrDep], 1, <<>>, FALSE) = << <<"h">>, <<"b", ":">> >>
  /\ file_mtime(Hdr) = file_mtime(OnrObj)
  /\ onr_ret = 1

----------------------------------------------------------------------------
(* compile_sources with every spawned process ending sooner or later and   *)
(* the scheduler going on whenever it can; nothing else is assumed: a wait  *)
(* has no timeout and blocks until its process has exited                   *)

\* a step of compile_sources itself
SchedStep ==
  \/ CsLoop
  \/ CsSpawnSingle
  \/ CsWaitSingle
  \/ CsWaitOldest
  \/ CsSpawn
  \/ CsDrain

SpecSchedLive ==
  /\ SpecSched
  /\ WF_vars(SchedStep)
  /\ \A s \in Range(PoolSrcs) : WF_vars(CompilerExit(s))

----------------------------------------------------------------------------
(* Claims about termination, checked under SpecSchedLive *)

\* the process the scheduler is blocked on in proc_wait, if any
WaitingOn ==
  IF pc = "cs_wait1" THEN {cs_srcs[cs_i]}
  ELSE IF pc = "cs_full" THEN {running[WaitSlot(running)]}
  ELSE IF pc = "cs_drain" /\ ~DrainDone THEN {running[cs_k]}
  ELSE {}

\* no element occurs twice
NoRepeat(q) == \A i, j \in 1..Len(q) : q[i] = q[j] => i = j

\* C32: when every spawned process exits sooner or later, compile_sources
\* returns, for every source list and every job count; it spawns at most
\* once per source and waits at most once per spawned process; and while
\* the process it waits on has not exited it neither returns nor spawns.
C32_Termination ==
  /\ <>(pc = "done")
  /\ [](/\ NoRepeat(spawnOrder) /\ NoRepeat(waitOrder)
        /\ Range(waitOrder) \subseteq Range(spawnOrder)
        /\ Range(spawnOrder) \subseteq Range(cs_srcs))
  /\ [][(\E s \in WaitingOn : proc[s].st = "run" /\ proc'[s].st = "run") =>
          /\ pc' = pc
          /\ cs_rc' = cs_rc
          /\ spawnOrder' = spawnOrder
          /\ waitOrder' = waitOrder]_vars

\* C32 witness: a batch of four sources at -j 2 has returned success after
\* four spawns and four waits
C32_Witness ==
  /\ pc = "done"
  /\ cs_rc = 0
  /\ cs_jobs = 2
  /\ Len(spawnOrder) = 4
  /\ Len(waitOrder) = 4

----------------------------------------------------------------------------
(* The code-bootstrap round trip: a TACKFILE_TARGETS array applied as it
   stands, and the same array through the generator, the parser and
   apply_ini_targets *)

\* apply_tackfile_targets with TACKFILE_TARGETS = defs
RECURSIVE apply_tackfile_targets(_, _)
apply_tackfile_targets(v, defs) ==
  IF defs = <<>> THEN v
  ELSE apply_tackfile_targets(tv_apply_targetdef(v, Head(defs)), Tail(defs))

\* the TargetDefs an array is made of: upserts and actions, enabled or not,
\* removes, for a discovered target and for one that discovery does not find
RtDefs ==
  {TargetDef(n, s, Null, Null, e, r) :
     n \in {ToolX, DemoName}, s \in {Null, <<"s">>}, e \in BOOLEAN,
     r \in BOOLEAN}

\* the arrays tried: every array of at most MaxDefs of these
RtArrays == UNION {[1..n -> RtDefs] : n \in 0..MaxDefs}

\* TACKFILE_OVERRIDES tried: none, or override keys only for a tool
RtOverrides ==
  {<<>>, <<Override(ToolX, <<>>, << <<"T">> >>, <<>>, <<>>, <<>>, TRUE)>>}

\* TACKFILE_TARGETS compiled into the running tack itself
RtCompiled ==
  {<<>>, <<TargetDef(ToolX, Null, Null, Null, FALSE, FALSE)>>,
   <<TargetDef(AppName, Null, Null, Null, FALSE, FALSE)>>}

\* main up to apply_tackfile_targets, with a tackfile.c whose document has
\* not been generated yet
InitRt ==
  /\ DriverInit
  /\ cpc = "rt_generate"
  /\ g_no_config = FALSE
  /\ g_config_path_cli = FALSE
  /\ g_no_auto_tools_cli = FALSE
  /\ tackfile \in {[default_target |-> Null, disable_auto_tools |-> FALSE,
                    targets |-> a, overrides |-> o] :
                     a \in RtArrays, o \in RtOverrides}
  /\ tack_ini = NoFile
  /\ cli_ini = NoFile
  /\ gen_ini = NoFile
  /\ gen_fresh = FALSE
  /\ gen_newer = FALSE
  /\ tools \in {<<>>, <<DirX>>}
  /\ app_dir = TRUE
  /\ g_ini_targets = <<>>
  /\ g_ini_overrides = <<>>
  /\ g_config_loaded = FALSE
  /\ g_config_default_target = Null
  /\ g_config_disable_auto_tools = FALSE
  /\ discovered = discover_targets(app_dir, tools, FALSE)
  /\ \E c \in RtCompiled : tv = apply_tackfile_targets(discovered, c)
  /\ exit_rc = -1
  /\ sel = Null
  /\ built = <<>>
  /\ gen_steps = {}
  /\ parsed = <<>>
  /\ tv_prev = tv
  /\ tv_def = NoDef
  /\ tv_n = 0

\* the generator runs: main of the generated program writes the document
RtGenerate ==
  /\ cpc = "rt_generate"
  /\ gen_ini' = generated_ini(tackfile)
  /\ gen_fresh' = TRUE
  /\ gen_steps' = gen_steps \cup {"run"}
  /\ cpc' = "rt_load"
  /\ UNCHANGED <<cfgInputs, g_ini_targets, g_ini_overrides, g_config_loaded,
                 g_config_default_target, g_config_disable_auto_tools, tv,
                 exit_rc, sel, built, parsed, tvHistory, driverVars,
                 buildVars, scanVars, execVars, iniVars, histVars, discovered, gen_newer>>

\* config_add_ini_layer on the generated document and the
\* ini_materialize_overrides that ends config_auto_load
RtLoad ==
  /\ cpc = "rt_load"
  /\ LET r == ini_load_file(gen_ini, g_ini_targets, g_config_default_target,
                            g_config_disable_auto_tools)
         m == ini_materialize_overrides(r.targets, <<>>)
     IN  /\ g_ini_targets' = m.targets
         /\ g_ini_overrides' = m.overrides
         /\ g_config_default_target' = r.default_target
         /\ g_config_disable_auto_tools' = r.disable_auto_tools
  /\ g_config_loaded' = TRUE
  /\ parsed' = Append(parsed, "generated")
  /\ cpc' = "rt_apply"
  /\ UNCHANGED <<cfgInputs, gen_ini, gen_fresh, tv, exit_rc, sel, built,
                 gen_steps, tvHistory, driverVars,
                 buildVars, scanVars, execVars, iniVars, histVars, discovered, gen_newer>>

\* apply_ini_targets on the graph main has built so far
RtApply ==
  /\ cpc = "rt_apply"
  /\ tv' = apply_ini_targets(tv, g_config_loaded, g_ini_targets)
  /\ tv_prev' = tv
  /\ cpc' = "rt_done"
  /\ UNCHANGED <<cfgInputs, gen_ini, gen_fresh, g_ini_targets,
                 g_ini_overrides, g_config_loaded, g_config_default_target,
                 g_config_disable_auto_tools, exit_rc, sel, built, gen_steps,
                 parsed, tv_def, tv_n, driverVars,
                 buildVars, scanVars, execVars, iniVars, histVars, discovered, gen_newer>>

NextRt == RtGenerate \/ RtLoad \/ RtApply

SpecRt == InitRt /\ [][NextRt]_vars

\* C33: a target block without `enabled` (src/bin/id only, or override keys
\* only) that names a target which is in the graph and disabled leaves that
\* target disabled
C33_KeepsDisabled ==
  cpc = "rt_done" =>
    \A k \in 1..Len(g_ini_targets) :
      LET t == g_ini_targets[k]
          i == tv_find_index_by_name(tv_prev, t.name)
          j == tv_find_index_by_name(tv, t.name)
      IN  (/\ ~t.enabled_set
           /\ ~(t.remove_set /\ t.remove)
           /\ i # 0
           /\ ~tv_prev[i].enabled)
          => j # 0 /\ ~tv[j].enabled

\* C35: the graph after generator, parser and apply_ini_targets is the graph
\* after the array applied entry by entry with tv_apply_targetdef
C35_RoundTrip ==
  (cpc = "rt_done" /\ tackfile.overrides = <<>>)
    => tv = apply_tackfile_targets(tv_prev, tackfile.targets)

----------------------------------------------------------------------------
(* The declarative parser line by line: ini_load_file on the text of a file *)

\* lines read from one file
MaxLines == 3
\* char namebuf[512] in ini_load_file
NameCap == 512

\* strchr: the first position of c in s, 0 if there is none
strchr(s, c) ==
  IF \E i \in 1..Len(s) : s[i] = c
  THEN CHOOSE i \in 1..Len(s) : s[i] = c /\ \A j \in 1..(i - 1) : s[j] # c
  ELSE 0

\* strncpy(namebuf, s, sizeof(namebuf) - 1) and the terminating zero
namebuf_of(s) == IF Len(s) > NameCap - 1 THEN SubSeq(s, 1, NameCap - 1) ELSE s

\* the six tolower tests on the text between '[' and ']'
starts_with_target(s) ==
  /\ Len(s) >= 6
  /\ [i \in 1..6 |-> tolower(s[i])] = <<"t", "a", "r", "g", "e", "t">>

\* the '[' branch of ini_load_file once ']' was found at position end of s
ini_header(s, end) ==
  LET inner == trim(SubSeq(s, 2, end - 1))
  IN  IF strieq(inner, <<"p", "r", "o", "j", "e", "c", "t">>) THEN ProjectHdr
      ELSE IF starts_with_target(inner)
      THEN LET p == trim(SubSeq(inner, 7, Len(inner)))
           IN  IF p # <<>> /\ Head(p) = "\""
               THEN LET q == strchr(Tail(p), "\"")
                    IN  IF q = 0 THEN Line("other", <<>>, "", <<>>)
                        ELSE TargetHdr(namebuf_of(SubSeq(Tail(p), 1, q - 1)))
               ELSE TargetHdr(rtrim(namebuf_of(p)))
      ELSE Line("other", <<>>, "", <<>>)

\* the keys ini_load_file compares with strieq, each with its spelling
IniKeys ==
  << <<"default_target", <<"d", "e", "f", "a", "u", "l", "t", "_", "t", "a", "r", "g", "e", "t">>>>,
     <<"disable_auto_tools", <<"d", "i", "s", "a", "b", "l", "e", "_", "a", "u", "t", "o", "_", "t", "o", "o", "l", "s">>>>,
     <<"src", <<"s", "r", "c">>>>,
     <<"bin", <<"b", "i", "n">>>>,
     <<"id", <<"i", "d">>>>,
     <<"enabled", <<"e", "n", "a", "b", "l", "e", "d">>>>,
     <<"remove", <<"r", "e", "m", "o", "v", "e">>>>,
     <<"core", <<"c", "o", "r", "e">>>>,
     <<"includes", <<"i", "n", "c", "l", "u", "d", "e", "s">>>>,
     <<"defines", <<"d", "e", "f", "i", "n", "e", "s">>>>,
     <<"cflags", <<"c", "f", "l", "a", "g", "s">>>>,
     <<"ldflags", <<"l", "d", "f", "l", "a", "g", "s">>>>,
     <<"libs", <<"l", "i", "b", "s">>>> >>

\* the key a text names, whatever its case; "" for a key that is not known
ini_key(s) ==
  IF \E i \in 1..Len(IniKeys) : strieq(s, IniKeys[i][2])
  THEN IniKeys[CHOOSE i \in 1..Len(IniKeys) : strieq(s, IniKeys[i][2])][1]
  ELSE ""

\* mutant of ini_classify: a header without ']' closes the open section
ini_classify_open_resets(raw) ==
  LET s == trim(raw)
  IN  IF s = <<>> \/ Head(s) \in {";", "#"} THEN Line("skip", <<>>, "", <<>>)
      ELSE IF Head(s) = "["
      THEN IF strchr(s, "]") = 0 THEN Line("other", <<>>, "", <<>>)
           ELSE ini_header(s, strchr(s, "]"))
      ELSE IF strchr(s, "=") = 0 THEN Line("skip", <<>>, "", <<>>)
      ELSE KV(ini_key(trim(SubSeq(s, 1, strchr(s, "=") - 1))),
              SubSeq(s, strchr(s, "=") + 1, Len(s)))

\* the body of the fgets loop down to the point where the line is a header
\* or key = value: trim, blank and comment lines, the '[' branch, the '='
ini_classify(raw) ==
  LET s == trim(raw)
  IN  IF s = <<>> \/ Head(s) \in {";", "#"} THEN Line("skip", <<>>, "", <<>>)
      ELSE IF Head(s) = "["
      THEN IF strchr(s, "]") = 0 THEN Line("skip", <<>>, "", <<>>)
           ELSE ini_header(s, strchr(s, "]"))
      ELSE IF strchr(s, "=") = 0 THEN Line("skip", <<>>, "", <<>>)
      ELSE KV(ini_key(trim(SubSeq(s, 1, strchr(s, "=") - 1))),
              SubSeq(s, strchr(s, "=") + 1, Len(s)))

\* the lines tried
RawProject == <<"[", "p", "r", "o", "j", "e", "c", "t", "]", "\n">>
RawTargetX == <<"[", "t", "a", "r", "g", "e", "t", " ", "\"", "x", "\"", "]", "\n">>
RawTargetY == <<" ", "[", " ", "T", "a", "r", "g", "e", "t", " ", "y", " ", "]", "\r", "\n">>
RawOpenTarget == <<"[", "t", "a", "r", "g", "e", "t", " ", "\"", "z", "\"", "\n">>
RawOpenProject == <<"[", "p", "r", "o", "j", "e", "c", "t", "\n">>
RawOther == <<"[", "o", "t", "h", "e", "r", "]", "\n">>
RawNoQuote == <<"[", "t", "a", "r", "g", "e", "t", " ", "\"", "x", "]", "\n">>
RawNoName == <<"[", "t", "a", "r", "g", "e", "t", "]", "\n">>
RawSrc == <<"S", "r", "c", " ", "=", " ", "s", "\n">>
RawDefault == <<"d", "e", "f", "a", "u", "l", "t", "_", "t", "a", "r", "g", "e",
                "t", "=", "x", "\n">>
RawEnabled == <<"e", "n", "a", "b", "l", "e", "d", " ", "=", " ", "n", "o", "\n">>
RawComment == <<";", " ", "[", "p", "r", "o", "j", "e", "c", "t", "]", "\n">>

RawLines ==
  {RawProject, RawTargetX, RawTargetY, RawOpenTarget, RawOpenProject, RawOther,
   RawNoQuote, RawNoName, RawSrc, RawDefault, RawEnabled, RawComment}

\* ini_load_file is called on a file, with what an earlier document left in
\* g_ini_targets and g_config_default_target
IniBegin ==
  /\ ini_pc = "off"
  /\ ini_file' \in UNION {[1..n -> RawLines] : n \in 0..MaxLines}
  /\ \E old \in {<<>>, <<NewIniTarget(<<"o">>)>>}, dt \in {Null, <<"p">>} :
       ini_st' = [NoIniState EXCEPT !.targets = old, !.default_target = dt]
  /\ ini_pc' = "open"
  /\ UNCHANGED <<ini_n, driverVars, buildVars, cfgVars, scanVars, execVars, histVars>>

\* fopen succeeded: ini_targets_init and ini_overrides_init
IniOpen ==
  /\ ini_pc = "open"
  /\ ini_st' = [ini_st EXCEPT !.sec = "none", !.cur = 0, !.targets = <<>>]
  /\ ini_pc' = "read"
  /\ UNCHANGED <<ini_file, ini_n, driverVars, buildVars, cfgVars, scanVars,
                 execVars, histVars>>

\* fgets returns a line: one turn of the loop
IniRead ==
  /\ ini_pc = "read"
  /\ ini_n < Len(ini_file)
  /\ ini_st' = ini_line(ini_st, ini_classify(ini_file[ini_n + 1]))
  /\ ini_n' = ini_n + 1
  /\ UNCHANGED <<ini_pc, ini_file, driverVars, buildVars, cfgVars, scanVars,
                 execVars, histVars>>

\* fgets returns 0: fclose, return 0
IniEof ==
  /\ ini_pc = "read"
  /\ ini_n = Len(ini_file)
  /\ ini_pc' = "done"
  /\ UNCHANGED <<ini_file, ini_n, ini_st, driverVars, buildVars, cfgVars,
                 scanVars, execVars, histVars>>

NextIni == IniBegin \/ IniOpen \/ IniRead \/ IniEof

SpecIni == Init /\ [][NextIni]_vars

\* the line starts a section header: '[' after the leading blanks
IsHeader(raw) == trim(raw) # <<>> /\ Head(trim(raw)) = "["
\* the header has its closing bracket
HasClose(raw) == \E i \in 1..Len(raw) : raw[i] = "]"
\* a project header, or a target header that names a target
ValidHeader(raw) ==
  /\ IsHeader(raw) /\ HasClose(raw)
  /\ \/ ini_classify(raw).t = "project"
     \/ ini_classify(raw).t = "target" /\ ini_classify(raw).name # <<>>

\* the file without its header lines that have no ']'
WithoutOpenHeaders(file) ==
  SelectSeq(file, LAMBDA raw : ~(IsHeader(raw) /\ ~HasClose(raw)))

\* ini_load_file run in one piece on the text of a file
ini_load_text(file, st) ==
  ini_load_file([i \in 1..Len(file) |-> ini_classify(file[i])], st.targets,
                st.default_target, st.disable_auto_tools)

\* C34: a header line without ']' leaves sec, cur_t and everything parsed so
\* far as they are, so the keys after it go to the section that was open and
\* the file parses as it would without that line; a header with ']' that is
\* neither [project] nor a named target closes the section, and keys read
\* while no section is open change nothing
C34_MalformedHeader ==
  /\ [][(ini_pc = "read" /\ ini_n < Len(ini_file)) =>
          LET raw == ini_file[ini_n + 1]
          IN  /\ (IsHeader(raw) /\ ~HasClose(raw)) => ini_st' = ini_st
              /\ (IsHeader(raw) /\ HasClose(raw) /\ ~ValidHeader(raw)) =>
                   ini_st' = [ini_st EXCEPT !.sec = "none", !.cur = 0]
              /\ (~IsHeader(raw) /\ ini_st.sec = "none") => ini_st' = ini_st]_vars
  /\ [](ini_pc = "done" =>
          LET r == ini_load_text(WithoutOpenHeaders(ini_file), ini_st)
          IN  /\ ini_st.targets = r.targets
              /\ ini_st.default_target = r.default_target
              /\ ini_st.disable_auto_tools = r.disable_auto_tools)

\* a key after a header without ']' went to the target that was open before
\* that header
C34_Witness ==
  /\ ini_pc = "done"
  /\ ini_file = <<RawTargetX, RawOpenTarget, RawSrc>>
  /\ Len(ini_st.targets) = 1
  /\ ini_st.targets[1].name = <<"x">>
  /\ ini_st.targets[1].src_dir = <<"s">>

----------------------------------------------------------------------------
(* Lookup in the graph, and the names in it *)

\* the id discovery gives tools/x
ToolXId == sanitize_name_to_id(IdCap, ToolX)

\* what --target names in the lookups tried
FindKeys == {AppName, ToolX, DemoName, ToolXId}

\* the TargetDefs applied before a lookup: those of DefSamples and upserts
\* of a target whose name is the id of a discovered tool
FindDefs ==
  DefSamples \cup {TargetDef(ToolXId, <<"s">>, Null, Null, e, FALSE) : e \in BOOLEAN}

\* main, "build" with --target key on the graph as it stands: find_target
\* and the target handed to build_one_target
TvFind(key) ==
  /\ cpc = "graph"
  /\ sel' = key
  /\ built' = IF find_target(tv, key) = 0 THEN built
              ELSE Append(built,
                          [target |-> tv[find_target(tv, key)],
                           ov |-> find_override(g_ini_overrides,
                                                tv[find_target(tv, key)].name)])
  /\ cpc' = "found"
  /\ UNCHANGED <<cfgInputs, gen_ini, gen_fresh, g_ini_targets,
                 g_ini_overrides, g_config_loaded, g_config_default_target,
                 g_config_disable_auto_tools, tv, exit_rc, gen_steps, parsed,
                 tvHistory, driverVars, buildVars, scanVars, execVars, iniVars, histVars,
                 discovered, gen_newer>>

NextFind == (\E d \in FindDefs : TvApply(d)) \/ (\E key \in FindKeys : TvFind(key))

SpecFind == InitTv /\ [][NextFind]_vars

\* C36: when the selector is the name of an enabled target, the lookup
\* returns that target
C36_LookupByName ==
  (cpc = "found" /\ \E i \in 1..Len(tv) : tv[i].enabled /\ tv[i].name = sel)
    => built # <<>> /\ built[Len(built)].target.name = sel

\* no two entries of a graph have the same name
UniqueNames(v) == \A i, j \in 1..Len(v) : v[i].name = v[j].name => i = j

\* C37: after discovery and any TargetDefs applied to the graph, no two
\* targets of the graph have the same name
C37_UniqueNames == UniqueNames(tv)

\* two upserts were applied, the second to a name the graph already held
C37_Witness ==
  /\ cpc = "graph"
  /\ tv_n = MaxDefs
  /\ ~tv_def.remove
  /\ tv_def.src_dir # Null
  /\ tv_find_index_by_name(tv_prev, tv_def.name) # 0
  /\ Len(tv) > Len(discovered)

----------------------------------------------------------------------------
(* When the scheduler notices a failed job *)

\* C38: with more than one job the batch returns failure for a failed job
\* only in the step that waits it, and between the exit of a failed job and
\* that step at most jobs - 1 further jobs are spawned; with one job nothing
\* is spawned once a job has failed
C38_FailureNoticedAtWait ==
  /\ [](cs_jobs > 1 => lateSpawns <= cs_jobs - 1)
  /\ [](cs_jobs = 1 => lateSpawns = 0)
  /\ [][(cs_jobs > 1 /\ cs_rc' = 1 /\ cs_rc # 1 /\ pc # "cs_spawn") =>
          /\ Len(waitOrder') = Len(waitOrder) + 1
          /\ proc[waitOrder'[Len(waitOrder')]].code # 0]_vars

\* the batch ran with the largest window, a job failed at once, the window
\* was filled after that and the failure was returned when the job was waited
C38_Witness ==
  /\ pc = "done"
  /\ cs_rc = 1
  /\ cs_jobs = MaxJobs
  /\ lateSpawns = cs_jobs - 1
  /\ waitOrder # <<>>
  /\ proc[waitOrder[Len(waitOrder)]].code # 0

----------------------------------------------------------------------------
(* The object and depfile paths of one batch *)

\* compile_sources on a batch whose source paths differ only in characters
\* that sanitize_path_to_id replaces
SpecBatch == InitSchedOn(ClashSrcs) /\ [][NextSched]_vars

\* C39: two compile processes of one batch that are running at the same time
\* write different object files and different depfiles
C39_DistinctOutputs ==
  \A s1, s2 \in Range(cs_srcs) :
    (s1 # s2 /\ proc[s1].st = "run" /\ proc[s2].st = "run") =>
      /\ ObjPathOf(cs_objd, s1) # ObjPathOf(cs_objd, s2)
      /\ DepPathOf(cs_depd, s1) # DepPathOf(cs_depd, s2)

----------------------------------------------------------------------------
(* Project settings across the layers *)

\* a tackfile.c that names the default target and switches discovery off
TfNoTools ==
  [default_target |-> DemoName, disable_auto_tools |-> TRUE,
   targets |-> <<TargetDef(DemoName, <<"d">>, Null, Null, TRUE, FALSE)>>,
   overrides |-> <<>>]

\* a tackfile.c that sets neither project key
TfPlain ==
  [default_target |-> Null, disable_auto_tools |-> FALSE,
   targets |-> <<TargetDef(DemoName, <<"d">>, Null, Null, TRUE, FALSE)>>,
   overrides |-> <<>>]

\* tack.ini: switches discovery back on
DocToolsOn ==
  << ProjectHdr, KV("disable_auto_tools", <<" ", "n", "o", "\n">>) >>

\* tack.ini: names another default target, in the second of two project
\* sections
DocDefault ==
  << ProjectHdr, TargetHdr(AppName), KV("default_target", DemoName),
     ProjectHdr, KV("default_target", <<" ">> \o ToolX \o <<"\n">>) >>

LayerTackfiles == {TfNoTools, TfPlain}

LayerDocs == {DocToolsOn, DocDefault, DocNoTools, DocAppDefines, DocEmpty}

SpecLayers == InitCfgOn(LayerTackfiles, LayerDocs) /\ [][NextCfg]_vars

\* the value the last "key = ..." line inside a [project] section of a
\* document gives the key, or none when the document has no such line
RECURSIVE ProjectSetting(_, _, _, _)
ProjectSetting(lines, key, inProject, none) ==
  IF lines = <<>> THEN none
  ELSE LET ln == lines[Len(lines)]
           before == SubSeq(lines, 1, Len(lines) - 1)
           RECURSIVE open(_)
           open(k) == IF k = 0 THEN inProject
                      ELSE IF before[k].t = "kv" THEN open(k - 1)
                      ELSE before[k].t = "project"
       IN  IF ln.t = "kv" /\ ln.key = key /\ open(Len(before))
           THEN trim(ln.val)
           ELSE ProjectSetting(before, key, inProject, none)

\* the name discovery gives a directory of tools/
IsToolName(name) ==
  /\ Len(name) >= Len(ToolPrefix)
  /\ SubSeq(name, 1, Len(ToolPrefix)) = ToolPrefix

\* the two documents main has read when both layers were loaded
UpperDoc == IF g_config_path_cli THEN cli_ini ELSE tack_ini
BothLayers ==
  /\ cpc = "command"
  /\ Len(parsed) = 2
  /\ parsed[1] = "generated"

\* C40: with both layers loaded each project key has the value of the
\* declarative document when that document sets it and the value of the
\* generated document otherwise; with --no-auto-tools no tool is discovered
\* whatever the documents say
C40_ProjectSettingsMerged ==
  /\ BothLayers =>
       /\ g_config_default_target =
            ProjectSetting(UpperDoc, "default_target", FALSE,
              ProjectSetting(gen_ini, "default_target", FALSE, Null))
       /\ g_config_disable_auto_tools =
            parse_bool(
              ProjectSetting(UpperDoc, "disable_auto_tools", FALSE,
                ProjectSetting(gen_ini, "disable_auto_tools", FALSE,
                               <<"n", "o">>)))[2]
  /\ (cpc = "command" /\ g_no_auto_tools_cli) =>
       \A i \in 1..Len(discovered) :
         ~IsToolName(discovered[i].name)
  /\ (cpc = "command" /\ ~g_no_auto_tools_cli /\ tools # <<>>) =>
       ((\E i \in 1..Len(discovered) : IsToolName(discovered[i].name))
        <=> ~(g_config_loaded /\ g_config_disable_auto_tools))

\* the generated document set both keys, tack.ini set only one of them, and
\* the other kept the value of the generated document
C40_Witness ==
  /\ BothLayers
  /\ tackfile = TfNoTools
  /\ UpperDoc = DocToolsOn
  /\ g_config_default_target = DemoName
  /\ ~g_config_disable_auto_tools
  /\ tools # <<>>
  /\ Len(discovered) > 1

====
